---- MODULE Spec2Model ----
(***************************************************************************)
(* State-machine model of the splinter proxy: the handshake / status /     *)
(* login state machine of one accepted connection                          *)
(* (src/src/protocol/mod.rs, src/src/protocol/v753/mod.rs), the relay      *)
(* loops of the client created by that connection with their dispatch      *)
(* (send_packet / write_packet), the proxy-initiated kick and the shutdown *)
(* (src/src/proxy/mod.rs), the identifier mapping tables and the tag       *)
(* translation (src/src/state.rs).                                         *)
(***************************************************************************)
EXTENDS Integers, Sequences, FiniteSets, TLC

\* ------------------------------------------------------------------ bounds
\* packets the relay readers may read, all together
MaxPackets == 2
\* packets the peer may send on the accepted connection (handshake included)
MaxConnReads == 4
\* invocations of kick_client
MaxKicks == 1
\* ids the allocators of the mapping may hand out, all together
MaxAllocs == 3
\* entries of a wire tag list
MaxTags == 2
\* the zoner is asked about positions with |x|, |z| up to this
MaxCoord == 6

\* ------------------------------------------------------------- input sets
\* protocol numbers a Handshake may carry: the three the registry resolves
\* and one it does not
Versions == {1, 753, 754, 755}
\* StatusPing payloads
Payloads == {41, 42}
\* backend ids of the zoner built by SplinterProxy::new
Backends == {0, 1}

\* config.server_status and config.improper_version_disconnect_message
ServerStatus == "server_status"
ImproperVersionMessage == "improper_version_disconnect_message"

\* ---------------------------------------------------------------- packets
\* a packet read from the accepted connection
InPacket(kind, version, next, payload) ==
    [kind |-> kind, version |-> version, next |-> next, payload |-> payload]
HandshakePackets ==
    {InPacket("Handshake", v, n, 0) : v \in Versions, n \in {"Status", "Login"}}
StatusPingPackets == {InPacket("StatusPing", 0, "-", p) : p \in Payloads}
StatusRequestPacket == InPacket("StatusRequest", 0, "-", 0)
OtherPacket == InPacket("Other", 0, "-", 0)
\* what the first read may return besides a Handshake
NonHandshakePackets == StatusPingPackets \cup {StatusRequestPacket, OtherPacket}

\* a packet written to the accepted connection
OutPacket(kind, payload, text) == [kind |-> kind, payload |-> payload, text |-> text]
StatusResponse == OutPacket("StatusResponse", 0, ServerStatus)
StatusPong(p) == OutPacket("StatusPong", p, "")
LoginDisconnect(msg) == OutPacket("LoginDisconnect", 0, msg)

\* ProtocolVersion::from_number
from_number(version) ==
    CASE version = 753 -> "V753"
      [] version = 754 -> "V754"
      [] version = 755 -> "V755"
      [] OTHER -> "Err"

\* ------------------------------------------------------------------ tasks
Free == <<"free", 0>>
ClientRelay == <<"client", 0>>
ServerRelay(id) == <<"server", id>>
Kicker == <<"kick", 0>>
RelayTasks == {ClientRelay} \cup {ServerRelay(id) : id \in Backends}
Tasks == RelayTasks \cup {Kicker}

\* PacketDestination
DestClient == <<"Client", 0>>
DestServer(id) == <<"Server", id>>
DestNone == <<"None", 0>>
Destinations == {DestClient, DestNone} \cup {DestServer(id) : id \in Backends}

\* the one client this connection can become
ClientUuid == "alice"

\* entity ids and uuids the backends use, entity type codes
BackendEids == {1000, 1001}
BackendUuids == {"ua", "ub"}
EntityTypes == {42, 43}

VARIABLES
    \* the accepted connection (handle_handshake, handle_client_status)
    hsPc,          \* position of the handshake task
    hsBody,        \* the Handshake body it read
    connIn,        \* packets read from the connection so far
    connOut,       \* packets handed to conn.write_packet_async so far
    connIoErr,     \* a read or write on the connection failed
    hsResult,      \* what handle_handshake returned
    entered,       \* the sub-protocol handler that was called
    \* proxy and client state
    players,       \* SplinterProxy.players
    player_data,   \* SplinterProxy.player_data.players (its keys)
    alive,         \* SplinterClient.alive
    active_server_id, \* SplinterClient.active_server_id
    servers,       \* keys of SplinterClient.servers
    conn_alive,    \* SplinterServerConnection.alive, per backend id
    client_out,    \* packets written to SplinterClient.writer
    server_out,    \* packets written to SplinterServerConnection.writer
    \* locks (holder or Free)
    mapping_lock,  \* SplinterProxy.mapping
    writer_lock,   \* SplinterClient.writer
    servers_lock,  \* SplinterClient.servers
    conn_lock,     \* Mutex<SplinterServerConnection>, per backend id
    \* tasks
    pc,            \* position of each relay task and of the kick
    nread,         \* packets each relay task has read (the current one's number)
    dest,          \* PacketDestination of the packet a relay task is processing
    initDest,      \* the destination that packet started the pass chain with
    attempts,      \* write attempts made for that packet
    reported,      \* an error was reported while handling it
    kicks,         \* kick_client invocations so far
    kick_result,   \* what the last kick_client returned
    kick_reason,   \* the ClientKickReason of the kick_client call in progress
    disconnects,   \* texts of the PlayDisconnect packets written to the client
    late,          \* packets a relay task finished with after the alive flag was cleared
    \* SplinterProxy::shutdown
    proxy_alive,   \* SplinterProxy.alive
    sdPc,          \* position of the shutdown task
    sd_clients,    \* the registry as shutdown found it (its uuids)
    sd_uuids,      \* uuids shutdown has still to kick
    \* SplinterMapping
    eid_table,     \* pairs <<proxy eid, <<backend id, backend eid>>>>
    eid_gen,       \* the last id the entity-id allocator handed out
    eid_data,      \* entity type code per proxy eid
    uuid_table,    \* pairs <<proxy uuid, <<backend id, backend uuid>>>>
    uuid_gen,      \* the last id the uuid allocator handed out
    map_call,      \* the last mapping call: who, what, result
    \* tag translation
    tag_pc,        \* position of the task translating a tag list
    tag_wire,      \* the wire tag list handed to proto_tags_to_tags
    tag_list,      \* the TagList
    tag_out,       \* the wire tag list tags_to_proto_tags returned
    \* Zoner
    zone_pc,       \* position of the task asking the zoner
    zone_pos,      \* the X/Z position it asked about
    zone_backend,  \* the backend id the zoner answered
    \* the kick command
    cmd_pc         \* how far the command closure got, or why it bailed

hsVars == <<hsPc, hsBody, connIn, connOut, connIoErr, hsResult, entered>>
clientVars == <<players, player_data, alive, active_server_id, servers, conn_alive>>
outVars == <<client_out, server_out>>
lockVars == <<mapping_lock, writer_lock, servers_lock, conn_lock>>
taskVars == <<pc, nread, dest, initDest, attempts, reported, kicks, kick_result>>
kickVars == <<kick_reason, disconnects>>
shutVars == <<proxy_alive, sdPc, sd_clients, sd_uuids>>
mapVars == <<eid_table, eid_gen, eid_data, uuid_table, uuid_gen, map_call>>
tagVars == <<tag_pc, tag_wire, tag_list, tag_out>>
zoneVars == <<zone_pc, zone_pos, zone_backend>>
cmdVars == <<cmd_pc>>
vars == <<hsVars, clientVars, outVars, lockVars, taskVars, late, kickVars,
          shutVars, mapVars, tagVars, zoneVars, cmdVars>>

NoBody == InPacket("None", 0, "-", 0)

\* no mapping call has been made
NoCall == [fn |-> "none", by |-> Free, key |-> <<0, 0>>, ret |-> 0, fresh |-> FALSE]

\* the state of the proxy root after SplinterProxy::new, no kick under way,
\* no tag list being translated
ProxyInit ==
    /\ kick_reason = "none"
    /\ disconnects = <<>>
    /\ late = [t \in RelayTasks |-> 0]
    /\ proxy_alive = TRUE
    /\ sdPc = "idle"
    /\ sd_clients = {}
    /\ sd_uuids = {}
    /\ eid_table = {}
    /\ eid_gen = 0
    /\ eid_data = {}
    /\ uuid_table = {}
    /\ uuid_gen = 0
    /\ map_call = NoCall
    /\ tag_pc = "idle"
    /\ tag_wire = <<>>
    /\ tag_list = {}
    /\ tag_out = <<>>
    /\ zone_pc = "idle"
    /\ zone_pos = <<0, 0>>
    /\ zone_backend = 0
    /\ cmd_pc = "idle"

Init ==
    /\ hsPc = "handshake"
    /\ hsBody = NoBody
    /\ connIn = <<>>
    /\ connOut = <<>>
    /\ connIoErr = FALSE
    /\ hsResult = "none"
    /\ entered = "none"
    /\ players = {}
    /\ player_data = {}
    /\ alive = FALSE
    /\ active_server_id = 0
    /\ servers = {}
    /\ conn_alive = [id \in Backends |-> FALSE]
    /\ client_out = <<>>
    /\ server_out = [id \in Backends |-> <<>>]
    /\ mapping_lock = Free
    /\ writer_lock = Free
    /\ servers_lock = Free
    /\ conn_lock = [id \in Backends |-> Free]
    /\ pc = [t \in Tasks |-> "idle"]
    /\ nread = [t \in RelayTasks |-> 0]
    /\ dest = [t \in RelayTasks |-> DestNone]
    /\ initDest = [t \in RelayTasks |-> DestNone]
    /\ attempts = [t \in RelayTasks |-> 0]
    /\ reported = [t \in RelayTasks |-> FALSE]
    /\ kicks = 0
    /\ kick_result = "none"
    /\ ProxyInit

\* ------------------------------------------------ handle_handshake
\* the task returns `result`; the connection is dropped
HsReturn(result) ==
    /\ hsPc' = "done"
    /\ hsResult' = result

\* conn.read_packet_async().await? fails
HandshakeReadError ==
    /\ hsPc = "handshake"
    /\ connIoErr' = TRUE
    /\ HsReturn("io_error")
    /\ UNCHANGED <<hsBody, connIn, connOut, entered>>
    /\ UNCHANGED <<clientVars, outVars, lockVars, taskVars>>
    /\ UNCHANGED <<late, kickVars, shutVars, mapVars, tagVars>>
    /\ UNCHANGED <<zoneVars, cmdVars>>

\* None => {}
HandshakeEof ==
    /\ hsPc = "handshake"
    /\ HsReturn("ok")
    /\ UNCHANGED <<hsBody, connIn, connOut, connIoErr, entered>>
    /\ UNCHANGED <<clientVars, outVars, lockVars, taskVars>>
    /\ UNCHANGED <<late, kickVars, shutVars, mapVars, tagVars>>
    /\ UNCHANGED <<zoneVars, cmdVars>>

\* faulty variant of HandshakeUnexpected: any first packet is taken for a
\* status probe
HandshakeUnexpected_Status(p) ==
    /\ hsPc = "handshake"
    /\ connIn' = Append(connIn, p)
    /\ hsPc' = "status_response"
    /\ entered' = "status"
    /\ UNCHANGED <<hsBody, connOut, connIoErr, hsResult>>
    /\ UNCHANGED <<clientVars, outVars, lockVars, taskVars>>
    /\ UNCHANGED <<late, kickVars, shutVars, mapVars, tagVars>>
    /\ UNCHANGED <<zoneVars, cmdVars>>

\* Some(other_packet) => bail!("Expected a handshake packet ...")
HandshakeUnexpected(p) ==
    /\ hsPc = "handshake"
    /\ connIn' = Append(connIn, p)
    /\ HsReturn("protocol_error")
    /\ UNCHANGED <<hsBody, connOut, connIoErr, entered>>
    /\ UNCHANGED <<clientVars, outVars, lockVars, taskVars>>
    /\ UNCHANGED <<late, kickVars, shutVars, mapVars, tagVars>>
    /\ UNCHANGED <<zoneVars, cmdVars>>

\* faulty variant of HandshakeTarget: the version is not looked at
HandshakeTarget_NoVersionCheck(body) ==
    IF body.next = "Status" THEN "status" ELSE "login"

\* where Some(Packet753::Handshake(body)) leads, by next_state and version
HandshakeTarget(body) ==
    IF body.next = "Status"
    THEN CASE from_number(body.version) \in {"V753", "V754"} -> "status"
           [] from_number(body.version) = "V755" -> "todo"
           [] OTHER -> "status"
    ELSE CASE from_number(body.version) \in {"V753", "V754"} -> "login"
           [] from_number(body.version) = "V755" -> "todo"
           [] OTHER -> "login_disconnect"

\* Some(Packet753::Handshake(body)) => match body.next_state ...
HandshakeRead(body) ==
    /\ hsPc = "handshake"
    /\ connIn' = Append(connIn, body)
    /\ hsBody' = body
    /\ LET target == HandshakeTarget(body) IN
       CASE target = "todo" ->
              \* todo!() panics: the task aborts
              /\ HsReturn("panic")
              /\ entered' = entered
         [] target = "status" ->
              \* v753::handle_client_status(conn, addr, proxy)
              /\ hsPc' = "status_response"
              /\ entered' = "status"
              /\ hsResult' = hsResult
         [] target = "login" ->
              \* v753::handle_client_login(conn, addr, proxy)
              /\ hsPc' = "login"
              /\ entered' = "login"
              /\ hsResult' = hsResult
         [] OTHER ->
              /\ hsPc' = "login_disconnect"
              /\ entered' = entered
              /\ hsResult' = hsResult
    /\ UNCHANGED <<connOut, connIoErr>>
    /\ UNCHANGED <<clientVars, outVars, lockVars, taskVars>>
    /\ UNCHANGED <<late, kickVars, shutVars, mapVars, tagVars>>
    /\ UNCHANGED <<zoneVars, cmdVars>>

\* Err(e) arm of the Login match: conn.set_state(State::Login);
\* conn.write_packet_async(LoginDisconnect{improper_version_disconnect_message}).await?
LoginVersionDisconnect(ok) ==
    /\ hsPc = "login_disconnect"
    /\ connOut' = Append(connOut, LoginDisconnect(ImproperVersionMessage))
    /\ connIoErr' = ~ok
    /\ HsReturn(IF ok THEN "ok" ELSE "io_error")
    /\ UNCHANGED <<hsBody, connIn, entered>>
    /\ UNCHANGED <<clientVars, outVars, lockVars, taskVars>>
    /\ UNCHANGED <<late, kickVars, shutVars, mapVars, tagVars>>
    /\ UNCHANGED <<zoneVars, cmdVars>>

\* ------------------------------------------------ handle_client_status
\* faulty variant of AfterStatus: the invalid version is forgotten
AfterStatus_Ok(body) == "ok"

\* what handle_handshake returns once handle_client_status returned Ok(()):
\* the Err(e) arm bails with the invalid version after the status exchange
AfterStatus(body) ==
    IF from_number(body.version) = "Err" THEN "unsupported_version" ELSE "ok"

\* conn.write_packet_async(StatusResponse{config.server_status}).await?
StatusWriteResponse(ok) ==
    /\ hsPc = "status_response"
    /\ connOut' = Append(connOut, StatusResponse)
    /\ connIoErr' = ~ok
    /\ IF ok
       THEN hsPc' = "status_read" /\ hsResult' = hsResult
       ELSE HsReturn("io_error")
    /\ UNCHANGED <<hsBody, connIn, entered>>
    /\ UNCHANGED <<clientVars, outVars, lockVars, taskVars>>
    /\ UNCHANGED <<late, kickVars, shutVars, mapVars, tagVars>>
    /\ UNCHANGED <<zoneVars, cmdVars>>

\* conn.read_packet_async().await? fails inside the loop
StatusReadError ==
    /\ hsPc = "status_read"
    /\ connIoErr' = TRUE
    /\ HsReturn("io_error")
    /\ UNCHANGED <<hsBody, connIn, connOut, entered>>
    /\ UNCHANGED <<clientVars, outVars, lockVars, taskVars>>
    /\ UNCHANGED <<late, kickVars, shutVars, mapVars, tagVars>>
    /\ UNCHANGED <<zoneVars, cmdVars>>

\* None => break
StatusEof ==
    /\ hsPc = "status_read"
    /\ HsReturn(AfterStatus(hsBody))
    /\ UNCHANGED <<hsBody, connIn, connOut, connIoErr, entered>>
    /\ UNCHANGED <<clientVars, outVars, lockVars, taskVars>>
    /\ UNCHANGED <<late, kickVars, shutVars, mapVars, tagVars>>
    /\ UNCHANGED <<zoneVars, cmdVars>>

\* Some(Packet753::StatusPing(body)) => write StatusPong, then break
StatusReadPing(p) ==
    /\ hsPc = "status_read"
    /\ Len(connIn) < MaxConnReads
    /\ connIn' = Append(connIn, p)
    /\ hsPc' = "status_pong"
    /\ UNCHANGED <<hsBody, connOut, connIoErr, hsResult, entered>>
    /\ UNCHANGED <<clientVars, outVars, lockVars, taskVars>>
    /\ UNCHANGED <<late, kickVars, shutVars, mapVars, tagVars>>
    /\ UNCHANGED <<zoneVars, cmdVars>>

\* faulty variant of PongFor: the payload is not copied
PongFor_Default(body) == StatusPong(0)

\* the packet written in answer to StatusPing(body)
PongFor(body) == StatusPong(body.payload)

\* conn.write_packet_async(StatusPong{payload: body.payload}).await?; break
StatusWritePong(ok) ==
    /\ hsPc = "status_pong"
    /\ connOut' = Append(connOut, PongFor(connIn[Len(connIn)]))
    /\ connIoErr' = ~ok
    /\ HsReturn(IF ok THEN AfterStatus(hsBody) ELSE "io_error")
    /\ UNCHANGED <<hsBody, connIn, entered>>
    /\ UNCHANGED <<clientVars, outVars, lockVars, taskVars>>
    /\ UNCHANGED <<late, kickVars, shutVars, mapVars, tagVars>>
    /\ UNCHANGED <<zoneVars, cmdVars>>

\* faulty variant of StatusReadIgnored: a StatusRequest is answered again
StatusReadIgnored_Respond(p) ==
    /\ hsPc = "status_read"
    /\ Len(connIn) < MaxConnReads
    /\ connIn' = Append(connIn, p)
    /\ connOut' = IF p.kind = "StatusRequest" THEN Append(connOut, StatusResponse) ELSE connOut
    /\ UNCHANGED <<hsPc, hsBody, connIoErr, hsResult, entered>>
    /\ UNCHANGED <<clientVars, outVars, lockVars, taskVars>>
    /\ UNCHANGED <<late, kickVars, shutVars, mapVars, tagVars>>
    /\ UNCHANGED <<zoneVars, cmdVars>>

\* Some(Packet753::StatusRequest(_)) => do nothing;
\* Some(other) => error!("Unexpected packet ...")
StatusReadIgnored(p) ==
    /\ hsPc = "status_read"
    /\ Len(connIn) < MaxConnReads
    /\ connIn' = Append(connIn, p)
    /\ UNCHANGED <<hsPc, hsBody, connOut, connIoErr, hsResult, entered>>
    /\ UNCHANGED <<clientVars, outVars, lockVars, taskVars>>
    /\ UNCHANGED <<late, kickVars, shutVars, mapVars, tagVars>>
    /\ UNCHANGED <<zoneVars, cmdVars>>

HandshakeNext ==
    \/ HandshakeReadError
    \/ HandshakeEof
    \/ \E p \in NonHandshakePackets : HandshakeUnexpected(p)
    \/ \E body \in HandshakePackets : HandshakeRead(body)
    \/ \E ok \in BOOLEAN : LoginVersionDisconnect(ok)
    \/ \E ok \in BOOLEAN : StatusWriteResponse(ok)
    \/ StatusReadError
    \/ StatusEof
    \/ \E p \in StatusPingPackets : StatusReadPing(p)
    \/ \E ok \in BOOLEAN : StatusWritePong(ok)
    \/ \E p \in {StatusRequestPacket, OtherPacket} : StatusReadIgnored(p)


\* ------------------------------------------------ handle_client_login
\* Login succeeds: the client is created alive, registered, bound to the
\* initial active backend b with one open connection to it, and its relay
\* tasks (client reader, reader of backend b) start.
LoginSuccess(b) ==
    /\ hsPc = "login"
    /\ hsPc' = "play"
    /\ connOut' = Append(connOut, OutPacket("LoginSuccess", 0, ClientUuid))
    /\ players' = players \cup {ClientUuid}
    /\ alive' = TRUE
    /\ active_server_id' = b
    /\ servers' = {b}
    /\ conn_alive' = [conn_alive EXCEPT ![b] = TRUE]
    /\ pc' = [pc EXCEPT ![ClientRelay] = "check", ![ServerRelay(b)] = "check"]
    /\ UNCHANGED <<hsBody, connIn, connIoErr, hsResult, entered, player_data>>
    /\ UNCHANGED <<outVars, lockVars>>
    /\ UNCHANGED <<nread, dest, initDest, attempts, reported, kicks, kick_result>>
    /\ UNCHANGED <<late, kickVars, shutVars, mapVars, tagVars>>
    /\ UNCHANGED <<zoneVars, cmdVars>>

\* Login fails at some step: Login-phase disconnect, connection closed.
LoginFailure ==
    /\ hsPc = "login"
    /\ connOut' = Append(connOut, LoginDisconnect("login_failed"))
    /\ HsReturn("login_error")
    /\ UNCHANGED <<hsBody, connIn, connIoErr, entered>>
    /\ UNCHANGED <<clientVars, outVars, lockVars, taskVars>>
    /\ UNCHANGED <<late, kickVars, shutVars, mapVars, tagVars>>
    /\ UNCHANGED <<zoneVars, cmdVars>>

\* ------------------------------------------------ relay loops
IsServerRelay(t) == t[1] = "server"
\* the backend a server relay task reads from
BackendOf(t) == t[2]

\* a packet in a writer's log: who wrote it and its number in the writer's
\* own reading order (0 for the kick's PlayDisconnect)
Entry(t, n) == [by |-> t, n |-> n]

\* faulty variant of WriterAppend: the packet jumps the queue
WriterAppend_Front(log, e) == <<e>> \o log

\* writer.write_packet_async / write_raw_packet_async: the packet goes to the
\* end of the stream
WriterAppend(log, e) == Append(log, e)

\* faulty variant of RelayCheck: a backend reader looks at its connection's
\* flag only, not at the client's
RelayCheck_ConnOnly(t) ==
    /\ pc[t] = "check"
    /\ IsServerRelay(t) => conn_lock[BackendOf(t)] = Free
    /\ LET stop == IF IsServerRelay(t) THEN ~conn_alive[BackendOf(t)] ELSE ~alive
       IN /\ pc' = [pc EXCEPT ![t] = IF stop THEN "exit" ELSE "read"]
          /\ late' = [late EXCEPT ![t] = IF stop THEN 0 ELSE @]
    /\ attempts' = [attempts EXCEPT ![t] = 0]
    /\ reported' = [reported EXCEPT ![t] = FALSE]
    /\ UNCHANGED <<nread, dest, initDest, kicks, kick_result>>
    /\ UNCHANGED <<hsVars, clientVars, outVars, lockVars>>
    /\ UNCHANGED <<kickVars, shutVars, mapVars, tagVars>>
    /\ UNCHANGED <<zoneVars, cmdVars>>

\* loop head: if !**client.alive.load() { break }            (client relay)
\* if !**client.alive.load() || !server_conn.lock().await.alive { break }
RelayCheck(t) ==
    /\ pc[t] = "check"
    /\ IsServerRelay(t) /\ alive => conn_lock[BackendOf(t)] = Free
    /\ LET stop == IF IsServerRelay(t)
                   THEN ~alive \/ ~conn_alive[BackendOf(t)]
                   ELSE ~alive
       IN /\ pc' = [pc EXCEPT ![t] = IF stop THEN "exit" ELSE "read"]
          /\ late' = [late EXCEPT ![t] = IF stop THEN 0 ELSE @]
    /\ attempts' = [attempts EXCEPT ![t] = 0]
    /\ reported' = [reported EXCEPT ![t] = FALSE]
    /\ UNCHANGED <<nread, dest, initDest, kicks, kick_result>>
    /\ UNCHANGED <<hsVars, clientVars, outVars, lockVars>>
    /\ UNCHANGED <<kickVars, shutVars, mapVars, tagVars>>
    /\ UNCHANGED <<zoneVars, cmdVars>>

\* packets read so far by the relay tasks of `ts`
RECURSIVE TotalRead(_)
TotalRead(ts) ==
    IF ts = {} THEN 0
    ELSE LET t == CHOOSE x \in ts : TRUE IN nread[t] + TotalRead(ts \ {t})

\* read_raw_packet_async returns Ok(Some(raw_packet))
RelayReadPacket(t) ==
    /\ pc[t] = "read"
    /\ TotalRead(RelayTasks) < MaxPackets
    /\ nread' = [nread EXCEPT ![t] = @ + 1]
    /\ pc' = [pc EXCEPT ![t] = "lock_map"]
    /\ UNCHANGED <<dest, initDest, attempts, reported, kicks, kick_result>>
    /\ UNCHANGED <<hsVars, clientVars, outVars, lockVars>>
    /\ UNCHANGED <<late, kickVars, shutVars, mapVars, tagVars>>
    /\ UNCHANGED <<zoneVars, cmdVars>>

\* read_raw_packet_async returns Err(e): error!(...); continue
RelayReadError(t) ==
    /\ pc[t] = "read"
    /\ pc' = [pc EXCEPT ![t] = "check"]
    /\ UNCHANGED <<nread, dest, initDest, attempts, reported, kicks, kick_result>>
    /\ UNCHANGED <<hsVars, clientVars, outVars, lockVars>>
    /\ UNCHANGED <<late, kickVars, shutVars, mapVars, tagVars>>
    /\ UNCHANGED <<zoneVars, cmdVars>>

\* read_raw_packet_async returns Ok(None): connection closed, break
RelayReadEof(t) ==
    /\ pc[t] = "read"
    /\ pc' = [pc EXCEPT ![t] = "exit"]
    /\ UNCHANGED <<nread, dest, initDest, attempts, reported, kicks, kick_result>>
    /\ UNCHANGED <<hsVars, clientVars, outVars, lockVars>>
    /\ UNCHANGED <<late, kickVars, shutVars, mapVars, tagVars>>
    /\ UNCHANGED <<zoneVars, cmdVars>>

\* faulty variant of ClientInitialDestination: the lowest open connection
\* instead of the active one
ClientInitialDestination_FirstOpen ==
    DestServer(CHOOSE id \in servers : \A o \in servers : id <= o)

\* let mut destination = PacketDestination::Server(**client.active_server_id.load())
ClientInitialDestination == DestServer(active_server_id)
\* let mut destination = PacketDestination::Client
ServerInitialDestination == DestClient

InitialDestination(t) ==
    IF IsServerRelay(t) THEN ServerInitialDestination ELSE ClientInitialDestination

\* faulty variant of RelayLockMapping: the task does not wait for the lock
RelayLockMapping_NoWait(t) ==
    /\ pc[t] = "lock_map"
    /\ mapping_lock' = t
    /\ dest' = [dest EXCEPT ![t] = InitialDestination(t)]
    /\ initDest' = [initDest EXCEPT ![t] = InitialDestination(t)]
    /\ pc' = [pc EXCEPT ![t] = "passes"]
    /\ UNCHANGED <<nread, attempts, reported, kicks, kick_result>>
    /\ UNCHANGED <<hsVars, clientVars, outVars, writer_lock, servers_lock, conn_lock>>
    /\ UNCHANGED <<late, kickVars, shutVars, mapVars, tagVars>>
    /\ UNCHANGED <<zoneVars, cmdVars>>

\* let map = &mut *proxy.mapping.lock().await; let mut destination = ...
\* (the guard lives to the end of the Some(raw_packet) arm)
RelayLockMapping(t) ==
    /\ pc[t] = "lock_map"
    /\ mapping_lock = Free
    /\ mapping_lock' = t
    /\ dest' = [dest EXCEPT ![t] = InitialDestination(t)]
    /\ initDest' = [initDest EXCEPT ![t] = InitialDestination(t)]
    /\ pc' = [pc EXCEPT ![t] = "passes"]
    /\ UNCHANGED <<nread, attempts, reported, kicks, kick_result>>
    /\ UNCHANGED <<hsVars, clientVars, outVars, writer_lock, servers_lock, conn_lock>>
    /\ UNCHANGED <<late, kickVars, shutVars, mapVars, tagVars>>
    /\ UNCHANGED <<zoneVars, cmdVars>>

\* for pass in inventory::iter::<RelayPass> { (pass.0)(.., &mut destination) }
\* the chain leaves the destination alone or reassigns it to d
RelayPasses(t, d) ==
    /\ pc[t] = "passes"
    /\ dest' = [dest EXCEPT ![t] = d]
    /\ pc' = [pc EXCEPT ![t] = "send"]
    /\ UNCHANGED <<nread, initDest, attempts, reported, kicks, kick_result>>
    /\ UNCHANGED <<hsVars, clientVars, outVars, lockVars>>
    /\ UNCHANGED <<late, kickVars, shutVars, mapVars, tagVars>>
    /\ UNCHANGED <<zoneVars, cmdVars>>

\* the zoning pass on a position update of the client that resolves to
\* backend b: ensure a connection to b exists (opening one, with its reader
\* task, if not), make b the active backend, redirect the packet to it
ZoningPass(b) ==
    /\ pc[ClientRelay] = "passes"
    /\ b # active_server_id
    /\ active_server_id' = b
    /\ servers' = servers \cup {b}
    /\ conn_alive' = IF b \in servers THEN conn_alive ELSE [conn_alive EXCEPT ![b] = TRUE]
    /\ dest' = [dest EXCEPT ![ClientRelay] = DestServer(b)]
    /\ pc' = [pc EXCEPT ![ClientRelay] = "send",
                        ![ServerRelay(b)] = IF b \in servers THEN @ ELSE "check"]
    /\ UNCHANGED <<players, player_data, alive>>
    /\ UNCHANGED <<nread, initDest, attempts, reported, kicks, kick_result>>
    /\ UNCHANGED <<hsVars, outVars, lockVars>>
    /\ UNCHANGED <<late, kickVars, shutVars, mapVars, tagVars>>
    /\ UNCHANGED <<zoneVars, cmdVars>>

\* faulty variant of ReleaseAll: the guard of the client writer outlives the
\* packet
ReleaseAll_KeepWriter(t) ==
    /\ late' = [late EXCEPT ![t] = IF alive THEN @ ELSE @ + 1]
    /\ dest' = [dest EXCEPT ![t] = DestNone]
    /\ initDest' = [initDest EXCEPT ![t] = DestNone]
    /\ mapping_lock' = IF mapping_lock = t THEN Free ELSE mapping_lock
    /\ writer_lock' = writer_lock
    /\ servers_lock' = IF servers_lock = t THEN Free ELSE servers_lock
    /\ conn_lock' = [id \in Backends |-> IF conn_lock[id] = t THEN Free ELSE conn_lock[id]]

\* the packet is done with: the guards of the arm and the destination are
\* dropped and the loop goes back to its head
ReleaseAll(t) ==
    /\ late' = [late EXCEPT ![t] = IF alive THEN @ ELSE @ + 1]
    /\ dest' = [dest EXCEPT ![t] = DestNone]
    /\ initDest' = [initDest EXCEPT ![t] = DestNone]
    /\ mapping_lock' = IF mapping_lock = t THEN Free ELSE mapping_lock
    /\ writer_lock' = IF writer_lock = t THEN Free ELSE writer_lock
    /\ servers_lock' = IF servers_lock = t THEN Free ELSE servers_lock
    /\ conn_lock' = [id \in Backends |-> IF conn_lock[id] = t THEN Free ELSE conn_lock[id]]

\* send_packet, PacketDestination::Client: client.writer.lock().await
SendToClient(t) ==
    /\ pc[t] = "send"
    /\ dest[t] = DestClient
    /\ writer_lock = Free
    /\ writer_lock' = t
    /\ pc' = [pc EXCEPT ![t] = "write"]
    /\ UNCHANGED <<nread, dest, initDest, attempts, reported, kicks, kick_result>>
    /\ UNCHANGED <<hsVars, clientVars, outVars, mapping_lock, servers_lock, conn_lock>>
    /\ UNCHANGED <<late, kickVars, shutVars, mapVars, tagVars>>
    /\ UNCHANGED <<zoneVars, cmdVars>>

\* send_packet, PacketDestination::Server(server_id):
\* client.servers.lock().await, then servers.get(server_id) finds the connection
SendToServer(t) ==
    /\ pc[t] = "send"
    /\ dest[t][1] = "Server"
    /\ dest[t][2] \in servers
    /\ servers_lock = Free
    /\ servers_lock' = t
    /\ pc' = [pc EXCEPT ![t] = "lock_conn"]
    /\ UNCHANGED <<nread, dest, initDest, attempts, reported, kicks, kick_result>>
    /\ UNCHANGED <<hsVars, clientVars, outVars, mapping_lock, writer_lock, conn_lock>>
    /\ UNCHANGED <<late, kickVars, shutVars, mapVars, tagVars>>
    /\ UNCHANGED <<zoneVars, cmdVars>>

\* faulty variant of SendToUnknownServer: the missing connection is taken
\* for the end of the session
SendToUnknownServer_Fatal(t) ==
    /\ pc[t] = "send"
    /\ dest[t][1] = "Server"
    /\ dest[t][2] \notin servers
    /\ servers_lock = Free
    /\ reported' = [reported EXCEPT ![t] = TRUE]
    /\ ReleaseAll(t)
    /\ alive' = FALSE
    /\ pc' = [pc EXCEPT ![t] = "exit"]
    /\ UNCHANGED <<players, player_data, active_server_id, servers, conn_alive>>
    /\ UNCHANGED <<nread, attempts, kicks, kick_result>>
    /\ UNCHANGED <<hsVars, outVars>>
    /\ UNCHANGED <<kickVars, shutVars, mapVars, tagVars>>
    /\ UNCHANGED <<zoneVars, cmdVars>>

\* send_packet, PacketDestination::Server(server_id): servers.get(server_id)
\* is None, ok_or_else(..)? returns the error; the relay loop logs it
SendToUnknownServer(t) ==
    /\ pc[t] = "send"
    /\ dest[t][1] = "Server"
    /\ dest[t][2] \notin servers
    /\ servers_lock = Free
    /\ reported' = [reported EXCEPT ![t] = TRUE]
    /\ ReleaseAll(t)
    /\ pc' = [pc EXCEPT ![t] = "check"]
    /\ UNCHANGED <<nread, attempts, kicks, kick_result>>
    /\ UNCHANGED <<hsVars, clientVars, outVars>>
    /\ UNCHANGED <<kickVars, shutVars, mapVars, tagVars>>
    /\ UNCHANGED <<zoneVars, cmdVars>>

\* send_packet, PacketDestination::None => return Ok(())
SendToNone(t) ==
    /\ pc[t] = "send"
    /\ dest[t] = DestNone
    /\ ReleaseAll(t)
    /\ pc' = [pc EXCEPT ![t] = "check"]
    /\ UNCHANGED <<nread, attempts, reported, kicks, kick_result>>
    /\ UNCHANGED <<hsVars, clientVars, outVars>>
    /\ UNCHANGED <<kickVars, shutVars, mapVars, tagVars>>
    /\ UNCHANGED <<zoneVars, cmdVars>>

\* the connection's own lock: servers.get(server_id)?.lock().await
SendLockConn(t) ==
    /\ pc[t] = "lock_conn"
    /\ conn_lock[dest[t][2]] = Free
    /\ conn_lock' = [conn_lock EXCEPT ![dest[t][2]] = t]
    /\ pc' = [pc EXCEPT ![t] = "write"]
    /\ UNCHANGED <<nread, dest, initDest, attempts, reported, kicks, kick_result>>
    /\ UNCHANGED <<hsVars, clientVars, outVars, mapping_lock, writer_lock, servers_lock>>
    /\ UNCHANGED <<late, kickVars, shutVars, mapVars, tagVars>>
    /\ UNCHANGED <<zoneVars, cmdVars>>

\* faulty variant of WritePacket: a packet for a backend is written to the
\* client writer as well
WritePacket_AlsoClient(t, ok) ==
    /\ pc[t] = "write"
    /\ attempts' = [attempts EXCEPT ![t] = @ + 1]
    /\ client_out' = IF ok THEN WriterAppend(client_out, Entry(t, nread[t])) ELSE client_out
    /\ server_out' = IF ok /\ dest[t] # DestClient
                     THEN [server_out EXCEPT ![dest[t][2]] =
                               WriterAppend(@, Entry(t, nread[t]))]
                     ELSE server_out
    /\ reported' = [reported EXCEPT ![t] = ~ok]
    /\ ReleaseAll(t)
    /\ pc' = [pc EXCEPT ![t] = "check"]
    /\ UNCHANGED <<nread, kicks, kick_result>>
    /\ UNCHANGED <<hsVars, clientVars>>
    /\ UNCHANGED <<kickVars, shutVars, mapVars, tagVars>>
    /\ UNCHANGED <<zoneVars, cmdVars>>

\* write_packet(writer, lazy_packet) on the writer send_packet locked; a
\* failure makes send_packet bail and the relay loop log the error
WritePacket(t, ok) ==
    /\ pc[t] = "write"
    /\ attempts' = [attempts EXCEPT ![t] = @ + 1]
    /\ IF dest[t] = DestClient
       THEN /\ client_out' = IF ok THEN WriterAppend(client_out, Entry(t, nread[t]))
                                   ELSE client_out
            /\ server_out' = server_out
       ELSE /\ server_out' = IF ok
                             THEN [server_out EXCEPT ![dest[t][2]] =
                                       WriterAppend(@, Entry(t, nread[t]))]
                             ELSE server_out
            /\ client_out' = client_out
    /\ reported' = [reported EXCEPT ![t] = ~ok]
    /\ ReleaseAll(t)
    /\ pc' = [pc EXCEPT ![t] = "check"]
    /\ UNCHANGED <<nread, kicks, kick_result>>
    /\ UNCHANGED <<hsVars, clientVars>>
    /\ UNCHANGED <<kickVars, shutVars, mapVars, tagVars>>
    /\ UNCHANGED <<zoneVars, cmdVars>>

\* after the client loop: proxy.players.write().unwrap().remove(&client.name)
ClientRelayRemove ==
    /\ pc[ClientRelay] = "exit"
    /\ players' = players \ {ClientUuid}
    /\ pc' = [pc EXCEPT ![ClientRelay] = "exit_alive"]
    /\ UNCHANGED <<player_data, alive, active_server_id, servers, conn_alive>>
    /\ UNCHANGED <<nread, dest, initDest, attempts, reported, kicks, kick_result>>
    /\ UNCHANGED <<hsVars, outVars, lockVars>>
    /\ UNCHANGED <<late, kickVars, shutVars, mapVars, tagVars>>
    /\ UNCHANGED <<zoneVars, cmdVars>>

\* faulty variant of ClientRelayClearAlive: the task returns without
\* clearing the flag
ClientRelayClearAlive_Skip ==
    /\ pc[ClientRelay] = "exit_alive"
    /\ pc' = [pc EXCEPT ![ClientRelay] = "done"]
    /\ UNCHANGED <<players, player_data, alive, active_server_id, servers, conn_alive>>
    /\ UNCHANGED <<nread, dest, initDest, attempts, reported, kicks, kick_result>>
    /\ UNCHANGED <<hsVars, outVars, lockVars>>
    /\ UNCHANGED <<late, kickVars, shutVars, mapVars, tagVars>>
    /\ UNCHANGED <<zoneVars, cmdVars>>

\* client.alive.store(Arc::new(false)); Ok(())
ClientRelayClearAlive ==
    /\ pc[ClientRelay] = "exit_alive"
    /\ alive' = FALSE
    /\ pc' = [pc EXCEPT ![ClientRelay] = "done"]
    /\ UNCHANGED <<players, player_data, active_server_id, servers, conn_alive>>
    /\ UNCHANGED <<nread, dest, initDest, attempts, reported, kicks, kick_result>>
    /\ UNCHANGED <<hsVars, outVars, lockVars>>
    /\ UNCHANGED <<late, kickVars, shutVars, mapVars, tagVars>>
    /\ UNCHANGED <<zoneVars, cmdVars>>

\* faulty variant of ServerRelayExit: the client goes down with its backend
\* connection
ServerRelayExit_DropClient(id) ==
    /\ pc[ServerRelay(id)] = "exit"
    /\ conn_lock[id] = Free
    /\ conn_alive' = [conn_alive EXCEPT ![id] = FALSE]
    /\ alive' = FALSE
    /\ pc' = [pc EXCEPT ![ServerRelay(id)] = "done"]
    /\ UNCHANGED <<players, player_data, active_server_id, servers>>
    /\ UNCHANGED <<nread, dest, initDest, attempts, reported, kicks, kick_result>>
    /\ UNCHANGED <<hsVars, outVars, lockVars>>
    /\ UNCHANGED <<late, kickVars, shutVars, mapVars, tagVars>>
    /\ UNCHANGED <<zoneVars, cmdVars>>

\* after the server loop: server_conn.lock().await.alive = false; Ok(())
ServerRelayExit(id) ==
    /\ pc[ServerRelay(id)] = "exit"
    /\ conn_lock[id] = Free
    /\ conn_alive' = [conn_alive EXCEPT ![id] = FALSE]
    /\ pc' = [pc EXCEPT ![ServerRelay(id)] = "done"]
    /\ UNCHANGED <<players, player_data, alive, active_server_id, servers>>
    /\ UNCHANGED <<nread, dest, initDest, attempts, reported, kicks, kick_result>>
    /\ UNCHANGED <<hsVars, outVars, lockVars>>
    /\ UNCHANGED <<late, kickVars, shutVars, mapVars, tagVars>>
    /\ UNCHANGED <<zoneVars, cmdVars>>

RelayNext ==
    \/ \E t \in RelayTasks : RelayCheck(t)
    \/ \E t \in RelayTasks : RelayReadPacket(t)
    \/ \E t \in RelayTasks : RelayReadError(t)
    \/ \E t \in RelayTasks : RelayReadEof(t)
    \/ \E t \in RelayTasks : RelayLockMapping(t)
    \/ \E t \in RelayTasks, d \in Destinations : RelayPasses(t, d)
    \/ \E b \in Backends : ZoningPass(b)
    \/ \E t \in RelayTasks : SendToClient(t)
    \/ \E t \in RelayTasks : SendToServer(t)
    \/ \E t \in RelayTasks : SendToUnknownServer(t)
    \/ \E t \in RelayTasks : SendToNone(t)
    \/ \E t \in RelayTasks : SendLockConn(t)
    \/ \E t \in RelayTasks, ok \in BOOLEAN : WritePacket(t, ok)
    \/ ClientRelayRemove
    \/ ClientRelayClearAlive
    \/ \E id \in Backends : ServerRelayExit(id)

\* ------------------------------------------------ SplinterProxy::kick_client
\* ClientKickReason::text
text(reason) ==
    CASE reason = "TimedOut" -> "Timed out"
      [] reason = "Kicked" -> "Kicked by console"
      [] reason = "Shutdown" -> "Server shut down"

\* faulty variant of KickLookup: a uuid that is not registered is kicked all
\* the same
KickLookup_NoBail(uuid, reason) ==
    /\ pc[Kicker] \in {"idle", "done"}
    /\ kick_reason' = reason
    /\ pc' = [pc EXCEPT ![Kicker] = "send_kick"]
    /\ kick_result' = "none"

\* kick_client(client_uuid, reason) is entered:
\* let cl_opt = self.players.read().await.get(&client_uuid).map(Arc::clone);
\* None => bail!("Failed to find client by UUID ...")
KickLookup(uuid, reason) ==
    /\ pc[Kicker] \in {"idle", "done"}
    /\ kick_reason' = reason
    /\ IF uuid \in players
       THEN pc' = [pc EXCEPT ![Kicker] = "send_kick"] /\ kick_result' = "none"
       ELSE pc' = [pc EXCEPT ![Kicker] = "done"] /\ kick_result' = "err"

\* the kick command: proxy.kick_client(target.uuid, ClientKickReason::Kicked{..})
KickClient(uuid) ==
    /\ kicks < MaxKicks
    /\ kicks' = kicks + 1
    /\ KickLookup(uuid, "Kicked")
    /\ UNCHANGED <<nread, dest, initDest, attempts, reported>>
    /\ UNCHANGED <<hsVars, clientVars, outVars, lockVars>>
    /\ UNCHANGED <<late, disconnects, shutVars, mapVars, tagVars>>
    /\ UNCHANGED <<zoneVars, cmdVars>>

\* client.send_kick(reason): write_packet_v753 takes self.writer.lock().await
KickLockWriter ==
    /\ pc[Kicker] = "send_kick"
    /\ writer_lock = Free
    /\ writer_lock' = Kicker
    /\ pc' = [pc EXCEPT ![Kicker] = "kick_write"]
    /\ UNCHANGED <<nread, dest, initDest, attempts, reported, kicks, kick_result>>
    /\ UNCHANGED <<hsVars, clientVars, outVars, mapping_lock, servers_lock, conn_lock>>
    /\ UNCHANGED <<late, kickVars, shutVars, mapVars, tagVars>>
    /\ UNCHANGED <<zoneVars, cmdVars>>

\* write_packet_async(PlayDisconnect{reason.text()}); client.send_kick(..).await?
KickWrite(ok) ==
    /\ pc[Kicker] = "kick_write"
    /\ writer_lock' = Free
    /\ client_out' = IF ok THEN WriterAppend(client_out, Entry(Kicker, 0)) ELSE client_out
    /\ disconnects' = IF ok THEN Append(disconnects, text(kick_reason)) ELSE disconnects
    /\ IF ok
       THEN pc' = [pc EXCEPT ![Kicker] = "set_alive"] /\ kick_result' = kick_result
       ELSE pc' = [pc EXCEPT ![Kicker] = "done"] /\ kick_result' = "err"
    /\ UNCHANGED <<nread, dest, initDest, attempts, reported, kicks>>
    /\ UNCHANGED <<hsVars, clientVars, server_out, mapping_lock, servers_lock, conn_lock>>
    /\ UNCHANGED <<late, kick_reason, shutVars, mapVars, tagVars>>
    /\ UNCHANGED <<zoneVars, cmdVars>>

\* client.set_alive(false).await
KickSetAlive ==
    /\ pc[Kicker] = "set_alive"
    /\ alive' = FALSE
    /\ pc' = [pc EXCEPT ![Kicker] = "remove"]
    /\ UNCHANGED <<players, player_data, active_server_id, servers, conn_alive>>
    /\ UNCHANGED <<nread, dest, initDest, attempts, reported, kicks, kick_result>>
    /\ UNCHANGED <<hsVars, outVars, lockVars>>
    /\ UNCHANGED <<late, kickVars, shutVars, mapVars, tagVars>>
    /\ UNCHANGED <<zoneVars, cmdVars>>

\* self.players.write().await.remove(&client_uuid)
KickRemove ==
    /\ pc[Kicker] = "remove"
    /\ players' = players \ {ClientUuid}
    /\ pc' = [pc EXCEPT ![Kicker] = "persist"]
    /\ UNCHANGED <<player_data, alive, active_server_id, servers, conn_alive>>
    /\ UNCHANGED <<nread, dest, initDest, attempts, reported, kicks, kick_result>>
    /\ UNCHANGED <<hsVars, outVars, lockVars>>
    /\ UNCHANGED <<late, kickVars, shutVars, mapVars, tagVars>>
    /\ UNCHANGED <<zoneVars, cmdVars>>

\* self.player_data.lock().await.players.insert(client.uuid, PlInfoPlayer{..}); Ok(())
KickPersist ==
    /\ pc[Kicker] = "persist"
    /\ player_data' = player_data \cup {ClientUuid}
    /\ pc' = [pc EXCEPT ![Kicker] = "done"]
    /\ kick_result' = "ok"
    /\ UNCHANGED <<players, alive, active_server_id, servers, conn_alive>>
    /\ UNCHANGED <<nread, dest, initDest, attempts, reported, kicks>>
    /\ UNCHANGED <<hsVars, outVars, lockVars>>
    /\ UNCHANGED <<late, kickVars, shutVars, mapVars, tagVars>>
    /\ UNCHANGED <<zoneVars, cmdVars>>

\* SplinterClient.name of the client registered under a uuid
name_of(uuid) == <<"name", uuid>>

\* argument lists of the kick command: none, the client's name, the client's
\* name and a message, a name nobody has
CommandArgs ==
    {<<>>, <<name_of(ClientUuid)>>, <<name_of(ClientUuid), "bye">>, <<name_of("bob")>>}

\* the registered clients with that name (find_client_by_name answers the
\* first, None when there is none)
find_client_by_name(name) == {uuid \in players : name_of(uuid) = name}

\* the kick command is run: args.is_empty() => bail!; then
\* smol::block_on(proxy.find_client_by_name(name)), None => bail!
KickCommandFind(args) ==
    /\ cmd_pc # "found"
    /\ pc[Kicker] \in {"idle", "done"}
    /\ kicks < MaxKicks
    /\ kicks' = kicks + 1
    /\ cmd_pc' = IF args = <<>> THEN "no_args"
                 ELSE IF find_client_by_name(args[1]) = {} THEN "no_name"
                 ELSE "found"
    /\ UNCHANGED <<pc, nread, dest, initDest, attempts, reported, kick_result>>
    /\ UNCHANGED <<hsVars, clientVars, outVars, lockVars>>
    /\ UNCHANGED <<late, kickVars, shutVars, mapVars, tagVars, zoneVars>>

\* Some(cl) => smol::block_on(proxy.kick_client(cl.uuid,
\* ClientKickReason::Kicked(sender.name(), message)))?
KickCommandCall ==
    /\ cmd_pc = "found"
    /\ KickLookup(ClientUuid, "Kicked")
    /\ cmd_pc' = IF ClientUuid \in players THEN "kicking" ELSE "no_uuid"
    /\ UNCHANGED <<nread, dest, initDest, attempts, reported, kicks>>
    /\ UNCHANGED <<hsVars, clientVars, outVars, lockVars>>
    /\ UNCHANGED <<late, disconnects, shutVars, mapVars, tagVars, zoneVars>>

KickCommandNext ==
    \/ \E args \in CommandArgs : KickCommandFind(args)
    \/ KickCommandCall
    \/ KickLockWriter
    \/ \E ok \in BOOLEAN : KickWrite(ok)
    \/ KickSetAlive
    \/ KickRemove
    \/ KickPersist

KickNext ==
    \/ KickClient(ClientUuid)
    \/ KickLockWriter
    \/ \E ok \in BOOLEAN : KickWrite(ok)
    \/ KickSetAlive
    \/ KickRemove
    \/ KickPersist

\* ------------------------------------------------ SplinterProxy::shutdown
\* let uuids = self.players.read().await.iter().map(|(uuid, _)| *uuid).collect()
ShutdownCollect ==
    /\ sdPc = "idle"
    /\ sd_clients' = players
    /\ sd_uuids' = players
    /\ sdPc' = "kick"
    /\ UNCHANGED <<proxy_alive, late, kickVars, mapVars, tagVars>>
    /\ UNCHANGED <<hsVars, clientVars, outVars, lockVars, taskVars>>
    /\ UNCHANGED <<zoneVars, cmdVars>>

\* for uuid in uuids { if let Err(e) = self.kick_client(uuid,
\* ClientKickReason::Shutdown).await { error!(..) } }: the next uuid, once the
\* kick_client before it has returned
ShutdownKick(uuid) ==
    /\ sdPc = "kick"
    /\ uuid \in sd_uuids
    /\ KickLookup(uuid, "Shutdown")
    /\ sd_uuids' = sd_uuids \ {uuid}
    /\ UNCHANGED <<proxy_alive, sdPc, sd_clients, late, disconnects, mapVars, tagVars>>
    /\ UNCHANGED <<nread, dest, initDest, attempts, reported, kicks>>
    /\ UNCHANGED <<hsVars, clientVars, outVars, lockVars>>
    /\ UNCHANGED <<zoneVars, cmdVars>>

\* save_player_data(&*self.player_data.lock().await, PLAYER_DATA_FILENAME),
\* an error only logged; reached when the last kick_client has returned
ShutdownSave ==
    /\ sdPc = "kick"
    /\ sd_uuids = {}
    /\ pc[Kicker] \in {"idle", "done"}
    /\ sdPc' = "clear"
    /\ UNCHANGED <<proxy_alive, sd_clients, sd_uuids, late, kickVars, mapVars, tagVars>>
    /\ UNCHANGED <<hsVars, clientVars, outVars, lockVars, taskVars>>
    /\ UNCHANGED <<zoneVars, cmdVars>>

\* self.alive.store(false, Ordering::Relaxed)
ShutdownClearAlive ==
    /\ sdPc = "clear"
    /\ proxy_alive' = FALSE
    /\ sdPc' = "done"
    /\ UNCHANGED <<sd_clients, sd_uuids, late, kickVars, mapVars, tagVars>>
    /\ UNCHANGED <<hsVars, clientVars, outVars, lockVars, taskVars>>
    /\ UNCHANGED <<zoneVars, cmdVars>>

ShutdownNext ==
    \/ ShutdownCollect
    \/ \E uuid \in {ClientUuid} : ShutdownKick(uuid)
    \/ KickLockWriter
    \/ \E ok \in BOOLEAN : KickWrite(ok)
    \/ KickSetAlive
    \/ KickRemove
    \/ KickPersist
    \/ ShutdownSave
    \/ ShutdownClearAlive

\* ------------------------------------------------ SplinterMapping
\* BiHashMap::get_by_right: the left values paired with r (at most one)
GetByRight(table, r) == {p[1] : p \in {q \in table : q[2] = r}}

\* BiHashMap::get_by_left
GetByLeft(table, l) == {p[2] : p \in {q \in table : q[1] = l}}

\* BiHashMap::insert(l, r): a pair holding l or r is overwritten
BiInsert(table, l, r) == {p \in table : p[1] # l /\ p[2] # r} \cup {<<l, r>>}

\* faulty variant of TakeId: the allocator does not advance
TakeId_Stuck(gen) == IF gen = 0 THEN 1 ELSE gen

\* IdGenerator::take_id: the next id, one above the last one handed out
TakeId(gen) == gen + 1

\* faulty variant of EidKey: the backend id is left out of the key
EidKey_NoBackend(b, e) == <<0, e>>

\* the right-hand value of the entity-id table: (backend_id, backend_eid)
EidKey(b, e) == <<b, e>>

\* faulty variant of KnownEid: a mapped pair is not found
KnownEid_Miss(b, e) == {}

\* the proxy eid already installed for (b, e), if any
KnownEid(b, e) == GetByRight(eid_table, EidKey(b, e))

\* a relay pass of task t, run under the mapping lock, may call the mapping
MayCallMapping(t) == pc[t] \notin {"idle", "done"} /\ mapping_lock = Free

\* map_eid_server_to_proxy(backend_id, backend_eid, entity_type) called by a
\* relay pass of task t: the existing mapping if present, else a fresh proxy
\* eid from eid_gen, the entity type recorded, both directions installed
MapEidServerToProxy(t, b, e, ty) ==
    /\ MayCallMapping(t)
    /\ IF KnownEid(b, e) # {}
       THEN /\ map_call' = [fn |-> "eid", by |-> t, key |-> <<b, e>>,
                            ret |-> CHOOSE k \in KnownEid(b, e) : TRUE, fresh |-> FALSE]
            /\ UNCHANGED <<eid_table, eid_gen, eid_data>>
       ELSE /\ eid_gen + uuid_gen < MaxAllocs
            /\ eid_gen' = TakeId(eid_gen)
            /\ eid_table' = BiInsert(eid_table, eid_gen', EidKey(b, e))
            /\ eid_data' = {d \in eid_data : d[1] # eid_gen'} \cup {<<eid_gen', ty>>}
            /\ map_call' = [fn |-> "eid", by |-> t, key |-> <<b, e>>,
                            ret |-> eid_gen', fresh |-> TRUE]
    /\ UNCHANGED <<uuid_table, uuid_gen>>
    /\ UNCHANGED <<hsVars, clientVars, outVars, lockVars, taskVars>>
    /\ UNCHANGED <<late, kickVars, shutVars, tagVars>>
    /\ UNCHANGED <<zoneVars, cmdVars>>

\* map_uuid_server_to_proxy(backend_id, backend_uuid): same shape
MapUuidServerToProxy(t, b, u) ==
    /\ MayCallMapping(t)
    /\ LET known == GetByRight(uuid_table, <<b, u>>) IN
       IF known # {}
       THEN /\ map_call' = [fn |-> "uuid", by |-> t, key |-> <<b, u>>,
                            ret |-> CHOOSE k \in known : TRUE, fresh |-> FALSE]
            /\ UNCHANGED <<uuid_table, uuid_gen>>
       ELSE /\ eid_gen + uuid_gen < MaxAllocs
            /\ uuid_gen' = TakeId(uuid_gen)
            /\ uuid_table' = BiInsert(uuid_table, uuid_gen', <<b, u>>)
            /\ map_call' = [fn |-> "uuid", by |-> t, key |-> <<b, u>>,
                            ret |-> uuid_gen', fresh |-> TRUE]
    /\ UNCHANGED <<eid_table, eid_gen, eid_data>>
    /\ UNCHANGED <<hsVars, clientVars, outVars, lockVars, taskVars>>
    /\ UNCHANGED <<late, kickVars, shutVars, tagVars>>
    /\ UNCHANGED <<zoneVars, cmdVars>>

\* what map_eid_proxy_to_server / map_uuid_proxy_to_server return when the
\* proxy id has no mapping
NotMapped == <<"NotMapped", 0>>

\* map_eid_proxy_to_server(proxy_eid)
MapEidProxyToServer(k) ==
    IF GetByLeft(eid_table, k) = {} THEN NotMapped
    ELSE CHOOSE r \in GetByLeft(eid_table, k) : TRUE

\* map_uuid_proxy_to_server(proxy_uuid)
MapUuidProxyToServer(k) ==
    IF GetByLeft(uuid_table, k) = {} THEN NotMapped
    ELSE CHOOSE r \in GetByLeft(uuid_table, k) : TRUE

MapNext ==
    \/ \E t \in RelayTasks, b \in Backends, e \in BackendEids, ty \in EntityTypes :
           MapEidServerToProxy(t, b, e, ty)
    \/ \E t \in RelayTasks, b \in Backends, u \in BackendUuids :
           MapUuidServerToProxy(t, b, u)

\* ------------------------------------------------ tag translation
\* a static dictionary (BLOCK_TYPE_MAP, ...): pairs <<numeric id, name>>
Dictionary == {<<1, "stone">>, <<2, "dirt">>}

\* tag names and the id lists a wire entry may carry; 9 is in no dictionary
TagNames == {"a", "b"}
WireEntryLists == {<<>>, <<1>>, <<1, 2>>, <<2, 1>>, <<9>>, <<1, 9>>}

\* TagSpec { name, entries }
WireTag(name, entries) == [name |-> name, entries |-> entries]
WireTags == {WireTag(n, e) : n \in TagNames, e \in WireEntryLists}

\* CountedArray<TagSpec, VarInt>: the wire tag lists of up to MaxTags entries
WireTagLists == UNION {[1..n -> WireTags] : n \in 0..MaxTags}

\* map.get_by_left(&**val).unwrap() finds a name for every id of the list
AllKnown(proto_tags, map) ==
    \A i \in DOMAIN proto_tags : \A j \in DOMAIN proto_tags[i].entries :
        GetByLeft(map, proto_tags[i].entries[j]) # {}

\* tag.entries.iter().map(|val| map.get_by_left(&**val).unwrap().clone())
NamesOf(ids, map) == [j \in DOMAIN ids |-> CHOOSE n \in GetByLeft(map, ids[j]) : TRUE]

\* ids.iter().map(|id| VarInt::from(*map.get_by_right(id).unwrap()))
IdsOf(names, map) == [j \in DOMAIN names |-> CHOOSE i \in GetByRight(map, names[j]) : TRUE]

\* faulty variant of HashInsert: an entry that is there is kept
HashInsert_KeepFirst(list, name, v) ==
    IF \E p \in list : p[1] = name THEN list ELSE list \cup {<<name, v>>}

\* HashMap::insert(name, v): the value of a name that is there is replaced
HashInsert(list, name, v) == {p \in list : p[1] # name} \cup {<<name, v>>}

\* proto_tags_to_tags: the TagList (pairs <<tag name, member names>>) built
\* by inserting the entries of the wire list one after the other
RECURSIVE proto_tags_to_tags(_, _)
proto_tags_to_tags(proto_tags, map) ==
    IF proto_tags = <<>> THEN {}
    ELSE LET n == Len(proto_tags) IN
         HashInsert(proto_tags_to_tags(SubSeq(proto_tags, 1, n - 1), map),
                    proto_tags[n].name, NamesOf(proto_tags[n].entries, map))

\* the orders tags.0.iter() may visit a HashMap in: any
IterOrders(list) ==
    {o \in [1..Cardinality(list) -> list] : \A i, j \in DOMAIN o : i # j => o[i] # o[j]}

\* tags_to_proto_tags, the HashMap visited in order o
tags_to_proto_tags(o, map) ==
    [i \in DOMAIN o |-> WireTag(o[i][1], IdsOf(o[i][2], map))]

\* Tags::from(&PlayTagsSpec) in the tags pass of a relay task: an id without
\* a name makes unwrap() panic, which aborts the task
TagsFromWire(x) ==
    /\ tag_pc = "idle"
    /\ tag_wire' = x
    /\ IF AllKnown(x, Dictionary)
       THEN tag_list' = proto_tags_to_tags(x, Dictionary) /\ tag_pc' = "named"
       ELSE tag_list' = tag_list /\ tag_pc' = "aborted"
    /\ UNCHANGED tag_out
    /\ UNCHANGED <<hsVars, clientVars, outVars, lockVars, taskVars>>
    /\ UNCHANGED <<late, kickVars, shutVars, mapVars>>
    /\ UNCHANGED <<zoneVars, cmdVars>>

\* PlayTagsSpec::from(&Tags): the stored TagList goes back to the wire form
TagsToWire(o) ==
    /\ tag_pc = "named"
    /\ tag_out' = tags_to_proto_tags(o, Dictionary)
    /\ tag_pc' = "back"
    /\ UNCHANGED <<tag_wire, tag_list>>
    /\ UNCHANGED <<hsVars, clientVars, outVars, lockVars, taskVars>>
    /\ UNCHANGED <<late, kickVars, shutVars, mapVars>>
    /\ UNCHANGED <<zoneVars, cmdVars>>

TagNext ==
    \/ \E x \in WireTagLists : TagsFromWire(x)
    \/ \E o \in IterOrders(tag_list) : TagsToWire(o)

\* ------------------------------------------------ Zoner
Coords == (0 - MaxCoord)..MaxCoord

\* Zone::Rectangle { x1, z1, x2, z2 } and Zone::InvertedRectangle { .. }
Rectangle(x1, z1, x2, z2) ==
    [shape |-> "Rectangle", x1 |-> x1, z1 |-> z1, x2 |-> x2, z2 |-> z2]
InvertedRectangle(x1, z1, x2, z2) ==
    [shape |-> "InvertedRectangle", x1 |-> x1, z1 |-> z1, x2 |-> x2, z2 |-> z2]

\* zoner: Zoner { zones: vec![(0, Zone::Rectangle{..}), (1, Zone::InvertedRectangle{..})] }
Zones ==
    << <<0, Rectangle(0 - 4, 0 - 4, 4, 4)>>,
       <<1, InvertedRectangle(0 - 3, 0 - 3, 3, 3)>> >>

\* the corners of a rectangle are inclusive
InRectangle(zone, x, z) ==
    zone.x1 <= x /\ x <= zone.x2 /\ zone.z1 <= z /\ z <= zone.z2

\* a position is in a Rectangle when it is inside it, and in an
\* InvertedRectangle when it is not inside the rectangle it names
ZoneContains(zone, x, z) ==
    IF zone.shape = "Rectangle" THEN InRectangle(zone, x, z)
    ELSE ~InRectangle(zone, x, z)

\* the entries of the zone list that match the position
Matching(zones, x, z) == {i \in DOMAIN zones : ZoneContains(zones[i][2], x, z)}

\* the backend id of the first matching zone in list order; no default is
\* configured, so a position in no zone is Unzoned
zone_of(zones, x, z) ==
    IF Matching(zones, x, z) = {} THEN "Unzoned"
    ELSE LET first == CHOOSE i \in Matching(zones, x, z) :
                         \A j \in Matching(zones, x, z) : i <= j
         IN zones[first][1]

\* a pass asks proxy.zoner for the backend of the position (x, z)
ZoneOf(x, z) ==
    /\ zone_pc' = "asked"
    /\ zone_pos' = <<x, z>>
    /\ zone_backend' = zone_of(Zones, x, z)
    /\ UNCHANGED <<hsVars, clientVars, outVars, lockVars, taskVars>>
    /\ UNCHANGED <<late, kickVars, shutVars, mapVars, tagVars, cmdVars>>

ZoneNext == \E x \in Coords, z \in Coords : ZoneOf(x, z)

LoginNext ==
    \/ \E b \in Backends : LoginSuccess(b)
    \/ LoginFailure

Next ==
    \/ HandshakeNext
    \/ LoginNext
    \/ RelayNext
    \/ KickNext
    \/ ShutdownNext
    \/ MapNext
    \/ TagNext
    \/ ZoneNext
    \/ KickCommandNext

\* the whole proxy: one accepted connection, the client it becomes with its
\* mapping calls and tag translation, a kick, the shutdown
Spec == Init /\ [][Next]_vars

\* the state right after a login: Handshake(753, Login) was read and
\* handle_client_login succeeded and bound the client to backend 0 (the
\* backends are interchangeable; Spec reaches this state and its mirror image)
PlayInit ==
    /\ hsPc = "play"
    /\ hsBody = InPacket("Handshake", 753, "Login", 0)
    /\ connIn = <<InPacket("Handshake", 753, "Login", 0)>>
    /\ connOut = <<OutPacket("LoginSuccess", 0, ClientUuid)>>
    /\ connIoErr = FALSE
    /\ hsResult = "none"
    /\ entered = "login"
    /\ players = {ClientUuid}
    /\ player_data = {}
    /\ alive = TRUE
    /\ active_server_id = 0
    /\ servers = {active_server_id}
    /\ conn_alive = [id \in Backends |-> id = active_server_id]
    /\ client_out = <<>>
    /\ server_out = [id \in Backends |-> <<>>]
    /\ mapping_lock = Free
    /\ writer_lock = Free
    /\ servers_lock = Free
    /\ conn_lock = [id \in Backends |-> Free]
    /\ pc = [t \in Tasks |-> IF t \in {ClientRelay, ServerRelay(active_server_id)}
                             THEN "check" ELSE "idle"]
    /\ nread = [t \in RelayTasks |-> 0]
    /\ dest = [t \in RelayTasks |-> DestNone]
    /\ initDest = [t \in RelayTasks |-> DestNone]
    /\ attempts = [t \in RelayTasks |-> 0]
    /\ reported = [t \in RelayTasks |-> FALSE]
    /\ kicks = 0
    /\ kick_result = "none"
    /\ ProxyInit

\* a client in play: its relay tasks and the kick
PlaySpec == PlayInit /\ [][RelayNext \/ KickNext]_vars

\* the accepted connection alone, up to the point where it becomes a client
HandshakeSpec == Init /\ [][HandshakeNext \/ LoginNext]_vars

\* one step of relay task t when every read of its reader fails
FailingRelay(t) ==
    \/ RelayCheck(t)
    \/ RelayReadError(t)
    \/ t = ClientRelay /\ ClientRelayRemove
    \/ t = ClientRelay /\ ClientRelayClearAlive
    \/ IsServerRelay(t) /\ ServerRelayExit(BackendOf(t))

ReadFailNext ==
    \/ \E t \in RelayTasks : FailingRelay(t)
    \/ KickClient(ClientUuid)
    \/ ShutdownNext

\* a client in play whose readers return nothing but errors: every relay task
\* that can take a step eventually takes one (the executor keeps polling
\* it); nobody has to kick or to shut the proxy down
ReadFailSpec ==
    PlayInit /\ [][ReadFailNext]_vars /\ \A t \in RelayTasks : WF_vars(FailingRelay(t))

\* a client in play and the proxy shutting down
ShutdownSpec == PlayInit /\ [][RelayNext \/ ShutdownNext]_vars

\* the translation of one wire tag list to name-based tags and back
TagSpec == PlayInit /\ [][TagNext]_vars

\* the mapping calls the relay passes of a client in play make
MappingSpec == PlayInit /\ [][MapNext]_vars

\* one step of relay task t when its reader fails or finds the connection
\* closed
EndingRelay(t) == FailingRelay(t) \/ RelayReadEof(t)

\* a client in play whose readers fail or end, and the kick command
KickCommandSpec ==
    PlayInit /\ [][(\E t \in RelayTasks : EndingRelay(t)) \/ KickCommandNext]_vars

\* the zoner of the proxy answering for the positions of a client in play
ZoneSpec == PlayInit /\ [][ZoneNext]_vars

\* ================================================================ claims
\* every log a relay task or a kick can write to
Logs == {client_out} \cup {server_out[id] : id \in Backends}

\* how many times log holds entry e
Count(log, e) == Cardinality({i \in DOMAIN log : log[i] = e})

RECURSIVE SumOver(_, _)
SumOver(f, S) ==
    IF S = {} THEN 0
    ELSE LET x == CHOOSE y \in S : TRUE IN f[x] + SumOver(f, S \ {x})

\* how many times packet n of relay task t was written, over all writers
Written(t, n) == Count(client_out, Entry(t, n)) + SumOver([id \in Backends |-> Count(server_out[id], Entry(t, n))], Backends)

\* task t finishes the dispatch of its packet in this step
Dispatches(t) == pc[t] \in {"send", "lock_conn", "write"} /\ pc'[t] = "check"

\* the writer its final destination names is there to be written to
HasWriter(d) == d = DestClient \/ (d[1] = "Server" /\ d[2] \in servers)

\* entries all logs hold together
TotalWritten == Len(client_out) + SumOver([id \in Backends |-> Len(server_out[id])], Backends)

\* C1 (state part): no packet of a relay task is in the writers' logs twice,
\* neither twice in one log nor in two logs, and no packet has had more than
\* one write attempt.
C1_NeverTwice ==
    /\ \A t \in RelayTasks : attempts[t] <= 1
    /\ \A log \in Logs : \A i, j \in DOMAIN log :
           (i < j /\ log[i].by \in RelayTasks) => log[i] # log[j]
    /\ \A i \in DOMAIN client_out : \A id \in Backends : \A j \in DOMAIN server_out[id] :
           client_out[i] # server_out[id][j]
    /\ \A id, od \in Backends : \A i \in DOMAIN server_out[id] : \A j \in DOMAIN server_out[od] :
           id # od => server_out[id][i] # server_out[od][j]

\* C1 (step part): the dispatch of a packet makes exactly one write attempt
\* when its final destination is Client or Server(id) with id an open
\* connection and none otherwise, and adds at most one entry to all writers.
C1_DispatchStep ==
    \A t \in RelayTasks :
        Dispatches(t) =>
            /\ attempts'[t] = IF HasWriter(dest[t]) THEN 1 ELSE 0
            /\ TotalWritten' <= TotalWritten + attempts'[t]

\* C1: every packet a relay loop reads causes at most one write to at most
\* one writer: exactly one write attempt when the final destination is Client
\* or Server(id) with an open connection, zero when it is None or an unknown
\* backend; no packet is ever written twice.
C1_AtMostOneWrite == [](C1_NeverTwice) /\ [][C1_DispatchStep]_vars

\* C1 witness: a relay task has dispatched its packet to a backend writer with
\* one write attempt, and the entry is in that writer's log once.
C1_Witness ==
    \E t \in RelayTasks, id \in Backends :
        /\ pc[t] = "check"
        /\ attempts[t] = 1
        /\ Count(server_out[id], Entry(t, nread[t])) = 1
        /\ Written(t, nread[t]) = 1

\* C2: in every writer's log the packets of one relay task appear in the
\* order that task read them (increasing packet numbers, none beyond what it
\* has read), whatever other relay tasks and kicks wrote in between.
C2_OrderPreserved ==
    \A log \in Logs :
        \A i, j \in DOMAIN log :
            (log[i].by \in RelayTasks) =>
                /\ log[i].n >= 1
                /\ log[i].n <= nread[log[i].by]
                /\ (i < j /\ log[j].by = log[i].by) => log[i].n < log[j].n

\* C2 witness: the client writer holds two packets of one backend reader, in
\* reading order, with the kick's PlayDisconnect written between them.
C2_Witness ==
    \E id \in Backends :
        client_out = <<Entry(ServerRelay(id), 1), Entry(Kicker, 0), Entry(ServerRelay(id), 2)>>

\* C3 (state part): a packet enters the pass chain with destination Client
\* when a backend reader read it and with Server(a), a the client's active
\* backend id at that moment, when the client reader read it.
C3_StartsAt ==
    \A t \in RelayTasks :
        pc[t] = "passes" =>
            /\ dest[t] = initDest[t]
            /\ dest[t] = IF IsServerRelay(t) THEN DestClient
                         ELSE DestServer(active_server_id)

\* C3 (step part): a client packet whose destination no pass reassigned is
\* written, when its write succeeds, to the writer of the backend that is
\* active.
C3_WrittenToActive ==
    (/\ pc[ClientRelay] = "write"
     /\ pc'[ClientRelay] = "check"
     /\ dest[ClientRelay] = initDest[ClientRelay]
     /\ ~reported'[ClientRelay])
    => /\ dest[ClientRelay] = DestServer(active_server_id)
       /\ server_out'[active_server_id] =
              Append(server_out[active_server_id], Entry(ClientRelay, nread[ClientRelay]))

\* C3: server->client packets start the chain with Client, client->server
\* packets with Server(active backend id read when the packet is processed);
\* so after a switch to b the packets read afterwards start with Server(b)
\* and are written to backend b unless a pass reassigns the destination.
C3_InitialDestination == [](C3_StartsAt) /\ [][C3_WrittenToActive]_vars

\* C3 witness: the active backend was switched (a second connection is open),
\* the client reader's second packet, read after the switch, was written to
\* the now active backend.
C3_Witness ==
    /\ Cardinality(servers) = 2
    /\ pc[ClientRelay] = "check"
    /\ nread[ClientRelay] = 2
    /\ attempts[ClientRelay] = 1
    /\ server_out[active_server_id] = <<Entry(ClientRelay, 1), Entry(ClientRelay, 2)>>

\* task t hands a packet for a backend without open connection to send_packet
SendsToUnknown(t) ==
    /\ pc[t] = "send"
    /\ pc'[t] # "send"
    /\ dest[t][1] = "Server"
    /\ dest[t][2] \notin servers

\* C4 (step): dispatching to Server(id) with no open connection id writes
\* nothing, reports an error, goes back to the loop head and leaves the
\* alive flag, the registry and the backend connections as they were.
C4_UnknownServerStep ==
    \A t \in RelayTasks :
        SendsToUnknown(t) =>
            /\ client_out' = client_out
            /\ server_out' = server_out
            /\ attempts'[t] = 0
            /\ reported'[t]
            /\ pc'[t] = "check"
            /\ alive' = alive
            /\ players' = players
            /\ servers' = servers
            /\ conn_alive' = conn_alive

\* C4: a packet whose final destination is Server(id) with no open connection
\* id is dropped with an error report and the relay loop continues; alive
\* flag, registry entry and the other backend connections are unchanged.
C4_UnknownServerDropped == [][C4_UnknownServerStep]_vars

\* C4 witness: the client reader has dropped a packet for a backend it has no
\* connection to, is back at the loop head, and the client is alive and
\* registered.
C4_Witness ==
    /\ pc[ClientRelay] = "check"
    /\ nread[ClientRelay] = 1
    /\ servers # Backends
    /\ client_out = <<>>
    /\ \A id \in Backends : server_out[id] = <<>>
    /\ reported[ClientRelay]
    /\ attempts[ClientRelay] = 0
    /\ alive
    /\ ClientUuid \in players

\* how many packets of a kind a log of the accepted connection holds
KindCount(log, kind) == Cardinality({i \in DOMAIN log : log[i].kind = kind})

\* C5: when the first packet read on an accepted connection is not a
\* Handshake, handle_handshake returns an error, nothing was written to the
\* peer and neither handle_client_status nor handle_client_login was called.
C5_NonHandshakeCloses ==
    (Len(connIn) >= 1 /\ connIn[1].kind # "Handshake") =>
        /\ hsPc = "done"
        /\ hsResult = "protocol_error"
        /\ connOut = <<>>
        /\ entered = "none"
        /\ Len(connIn) = 1

\* C5 witness: the first packet was a StatusRequest and the task has returned.
C5_Witness ==
    /\ connIn = <<StatusRequestPacket>>
    /\ hsPc = "done"
    /\ hsResult = "protocol_error"

UnsupportedLogin ==
    /\ hsBody.kind = "Handshake"
    /\ hsBody.next = "Login"
    /\ from_number(hsBody.version) = "Err"

\* C6: after Handshake(version, Login) with an unsupported version exactly
\* one packet is written, LoginDisconnect with the configured improper-version
\* message, then the task returns; no sub-protocol is entered, no client is
\* registered, no backend connection opened, no relay task started.
C6_ImproperVersionDisconnect ==
    UnsupportedLogin =>
        /\ hsPc \in {"login_disconnect", "done"}
        /\ hsPc = "login_disconnect" => connOut = <<>>
        /\ hsPc = "done" => connOut = <<LoginDisconnect(ImproperVersionMessage)>>
        /\ entered = "none"
        /\ players = {}
        /\ servers = {}
        /\ ~alive
        /\ \A t \in RelayTasks : pc[t] = "idle"

\* C6 witness: Handshake(1, Login) was answered and the connection closed.
C6_Witness ==
    /\ connIn = <<InPacket("Handshake", 1, "Login", 0)>>
    /\ hsPc = "done"
    /\ hsResult = "ok"
    /\ connOut = <<LoginDisconnect(ImproperVersionMessage)>>

UnsupportedStatus ==
    /\ hsBody.kind = "Handshake"
    /\ hsBody.next = "Status"
    /\ from_number(hsBody.version) = "Err"

\* the StatusPing packets read so far
PingsRead == {i \in DOMAIN connIn : connIn[i].kind = "StatusPing"}

\* C7: after Handshake(version, Status) with an unsupported version the
\* Status sub-protocol runs all the same: StatusResponse is written first, a
\* StatusPing is answered by StatusPong with its payload, the
\* unsupported-version error is returned only once the exchange is over
\* (and always then, unless an I/O error ended it), and no LoginDisconnect is
\* ever written.
C7_StatusForUnknownVersion ==
    UnsupportedStatus =>
        /\ entered = "status"
        /\ KindCount(connOut, "LoginDisconnect") = 0
        /\ hsPc # "status_response" => (connOut # <<>> /\ connOut[1] = StatusResponse)
        /\ hsResult \in {"none", "unsupported_version", "io_error"}
        /\ hsPc = "done" <=> hsResult # "none"
        /\ (hsPc = "done" /\ ~connIoErr) => hsResult = "unsupported_version"
        /\ hsResult = "unsupported_version" =>
              /\ ~connIoErr
              /\ \A i \in PingsRead : connOut = <<StatusResponse, StatusPong(connIn[i].payload)>>
              /\ PingsRead = {} => connOut = <<StatusResponse>>

\* C7 witness: Handshake(1, Status), StatusRequest, StatusPing(42) got
\* StatusResponse and StatusPong(42), then the version error was returned.
C7_Witness ==
    /\ connIn = <<InPacket("Handshake", 1, "Status", 0), StatusRequestPacket,
                  InPacket("StatusPing", 0, "-", 42)>>
    /\ connOut = <<StatusResponse, StatusPong(42)>>
    /\ hsPc = "done"
    /\ hsResult = "unsupported_version"

\* C8: for every protocol number the registry resolves (753, 754, 755) a
\* Handshake with next_state Status runs the Status sub-protocol (the peer
\* gets StatusResponse first) and one with next_state Login runs the Login
\* sub-protocol; the task never aborts without running it.
C8_ResolvedVersionsRun ==
    (hsBody.kind = "Handshake" /\ from_number(hsBody.version) # "Err") =>
        /\ hsResult # "panic"
        /\ entered = (IF hsBody.next = "Status" THEN "status" ELSE "login")
        /\ (entered = "status" /\ hsPc # "status_response") =>
               (connOut # <<>> /\ connOut[1] = StatusResponse)

\* C9 (state part): in a Status session StatusResponse is written exactly
\* once, first, before anything is read; while the session waits for the
\* ping nothing else has been written, whatever was read.
C9_OneResponse ==
    entered = "status" =>
        /\ hsPc = "status_response" => (connOut = <<>> /\ Len(connIn) = 1)
        /\ hsPc # "status_response" =>
              /\ connOut # <<>>
              /\ connOut[1] = StatusResponse
              /\ KindCount(connOut, "StatusResponse") = 1
        /\ hsPc = "status_read" => connOut = <<StatusResponse>>

\* C9 (step part): reading a StatusRequest or a packet of another kind
\* writes nothing and leaves the session waiting for the next packet.
C9_IgnoredStep ==
    (/\ hsPc = "status_read"
     /\ Len(connIn') > Len(connIn)
     /\ connIn'[Len(connIn')].kind # "StatusPing")
    => (hsPc' = "status_read" /\ connOut' = connOut /\ hsResult' = "none")

\* C9: a Status session writes exactly one StatusResponse, as its first
\* packet and before reading; StatusRequest packets and packets of other
\* kinds received afterwards cause no write and do not end the session.
C9_SingleStatusResponse == [](C9_OneResponse) /\ [][C9_IgnoredStep]_vars

\* C9 witness: after the response a StatusRequest and another packet were
\* read; the session still waits and only the response was written.
C9_Witness ==
    /\ hsPc = "status_read"
    /\ Len(connIn) = 3
    /\ connIn[2] = StatusRequestPacket
    /\ connIn[3] = OtherPacket
    /\ connOut = <<StatusResponse>>

\* C10: in a Status session the first StatusPing(p) read is the last packet
\* read; it is answered by exactly one StatusPong(p), the last packet
\* written, and the session ends. A session in which no StatusPing was read
\* writes no StatusPong.
C10_PingPong ==
    entered = "status" =>
        /\ \A i \in PingsRead :
              /\ i = Len(connIn)
              /\ hsPc \in {"status_pong", "done"}
              /\ hsPc = "status_pong" => connOut = <<StatusResponse>>
              /\ hsPc = "done" => connOut = <<StatusResponse, StatusPong(connIn[i].payload)>>
        /\ PingsRead = {} => KindCount(connOut, "StatusPong") = 0

\* C10 witness: StatusPing(41), read after a StatusRequest, was answered by
\* StatusPong(41) and the session returned Ok.
C10_Witness ==
    /\ Len(connIn) = 3
    /\ connIn[3] = InPacket("StatusPing", 0, "-", 41)
    /\ connOut = <<StatusResponse, StatusPong(41)>>
    /\ hsPc = "done"
    /\ hsResult = "ok"

\* no two pairs of a table share a left or a right value
Bijective(table) == \A p, q \in table : (p[1] = q[1] \/ p[2] = q[2]) => p = q

\* C11 (state part): both tables are bijections; every installed pair is
\* found from either side and maps back to itself; the proxy id the last
\* call returned maps back to the very pair the call was made with.
C11_Tables ==
    /\ Bijective(eid_table)
    /\ Bijective(uuid_table)
    /\ \A p \in eid_table :
           /\ GetByRight(eid_table, p[2]) = {p[1]}
           /\ MapEidProxyToServer(p[1]) = p[2]
    /\ \A p \in uuid_table :
           /\ GetByRight(uuid_table, p[2]) = {p[1]}
           /\ MapUuidProxyToServer(p[1]) = p[2]
    /\ map_call.fn = "eid" => MapEidProxyToServer(map_call.ret) = map_call.key
    /\ map_call.fn = "uuid" => MapUuidProxyToServer(map_call.ret) = map_call.key

\* C11 (step part): an installed pair is never removed or re-paired.
C11_Kept == eid_table \subseteq eid_table' /\ uuid_table \subseteq uuid_table'

C12_RepeatStep ==
    \A p \in eid_table :
        (map_call' # map_call /\ map_call'.fn = "eid" /\ map_call'.key = p[2]) =>
            /\ map_call'.ret = p[1]
            /\ ~map_call'.fresh
            /\ eid_gen' = eid_gen
            /\ eid_table' = eid_table
            /\ eid_data' = eid_data

\* C12 (state part): the pair of the last entity-id call is mapped to the id
\* the call returned.
C12_Returned ==
    map_call.fn = "eid" => <<map_call.ret, map_call.key>> \in eid_table

\* C12: map_eid_server_to_proxy is stable: once (backend_id, backend_eid) is
\* mapped to k every later call with that pair returns k, whatever was
\* mapped in between and whichever relay task calls, and allocates no id.
C12_Stable == [](C12_Returned) /\ [][C12_RepeatStep /\ eid_table \subseteq eid_table']_vars

\* C12 witness: the pair mapped first (proxy eid 1) was asked for again by
\* the client reader after two other pairs were mapped; the call returned 1.
C12_Witness ==
    /\ map_call = [fn |-> "eid", by |-> ClientRelay, key |-> <<1, 1001>>,
                   ret |-> 1, fresh |-> FALSE]
    /\ eid_gen = 3

\* the proxy ids a table holds
Lefts(table) == {p[1] : p \in table}

\* C13 (state part): the ids handed out so far are 1 .. last, each installed
\* once.
C13_HandedOut ==
    /\ Lefts(eid_table) = 1..eid_gen
    /\ Cardinality(eid_table) = eid_gen
    /\ Lefts(uuid_table) = 1..uuid_gen
    /\ Cardinality(uuid_table) = uuid_gen

\* C13 (step part): an allocating call returns an id above every id handed
\* out before, 1 for the first, and one no mapping holds.
C13_FreshStep ==
    /\ (map_call' # map_call /\ map_call'.fn = "eid" /\ map_call'.fresh) =>
           /\ map_call'.ret > eid_gen
           /\ eid_gen = 0 => map_call'.ret = 1
           /\ map_call'.ret \notin Lefts(eid_table)
           /\ eid_gen' = map_call'.ret
    /\ (map_call' # map_call /\ map_call'.fn = "uuid" /\ map_call'.fresh) =>
           /\ map_call'.ret > uuid_gen
           /\ uuid_gen = 0 => map_call'.ret = 1
           /\ map_call'.ret \notin Lefts(uuid_table)
           /\ uuid_gen' = map_call'.ret
    /\ eid_gen' >= eid_gen
    /\ uuid_gen' >= uuid_gen

\* C13: the proxy-side allocator hands out strictly increasing ids starting
\* from 1 and never an id it has handed out before, over the allocations of
\* all relay tasks.
C13_FreshIds == [](C13_HandedOut) /\ [][C13_FreshStep]_vars

\* C13 witness: the backend reader was handed proxy eid 2 after proxy eid 1
\* had been handed out, and a proxy uuid was handed out as well.
C13_Witness ==
    /\ eid_gen = 2
    /\ uuid_gen = 1
    /\ map_call.fn = "eid"
    /\ map_call.fresh
    /\ map_call.ret = 2
    /\ map_call.by = ServerRelay(0)

\* C14: once shutdown() has returned, every client that was registered when
\* it collected the registry has been sent a PlayDisconnect with the text
\* "Server shut down", has its alive flag cleared, is out of the registry
\* and has its position in the player data; the proxy alive flag is false.
C14_ShutdownKicksAll ==
    sdPc = "done" =>
        /\ \A c \in sd_clients :
               /\ \E i \in DOMAIN disconnects : disconnects[i] = "Server shut down"
               /\ ~alive
               /\ c \notin players
               /\ c \in player_data
        /\ ~proxy_alive

\* C15: whenever the client is destroyed, by its client read loop exiting
\* (EOF, or the alive flag found cleared) or by a kick, its position is in the
\* player data under its uuid.
C15_DestroyedPersisted ==
    (/\ ClientUuid \notin players
     /\ ~alive
     /\ pc[ClientRelay] = "done"
     /\ pc[Kicker] \in {"idle", "done"})
    => ClientUuid \in player_data

\* C16 (step): when the write of a relay task fails, the loop goes on with
\* the next packet and the client stays as it is if the writer was a
\* backend's; if it was the client's, the client is marked not-alive and
\* the loop exits.
C16_WriteFailureStep ==
    \A t \in RelayTasks :
        (pc[t] = "write" /\ pc'[t] # "write" /\ reported'[t]) =>
            IF dest[t] = DestClient
            THEN ~alive' /\ pc'[t] = "exit"
            ELSE alive' = alive /\ pc'[t] = "check"

\* C16: in a relay loop a failed write to a backend writer is logged and the
\* loop continues; a failed write to the primary client writer marks the
\* client not-alive and makes the loop exit.
C16_WriteFailures == [][C16_WriteFailureStep]_vars

\* C17: a relay loop whose reader returns nothing but errors does not spin
\* forever: the client is eventually marked not-alive and the client loop
\* exits.
C17_FailingReaderStops == <>(~alive /\ pc[ClientRelay] = "done")

\* relay task t has a packet in hand
Busy(t) == pc[t] \in {"lock_map", "passes", "send", "lock_conn", "write"}

\* relay task t has left its loop
Exited(t) == pc[t] \in {"exit", "exit_alive", "done"}

\* C18 (state part): while the flag is cleared a relay loop has finished with
\* at most one packet since, and once it has it is back at its loop head
\* with no packet in hand and no read under way.
C18_AtMostOneMore ==
    ~alive =>
        \A t \in RelayTasks :
            /\ late[t] <= 1
            /\ late[t] = 1 => pc[t] = "check"

\* C18 (step part): a read starts only from the loop head and only with the
\* flag found set; a packet is obtained only by a read that was under way;
\* at the loop head with the flag cleared the loop exits; a loop that has
\* exited never reads again.
C18_CheckStep ==
    \A t \in RelayTasks :
        /\ (pc[t] # "read" /\ pc'[t] = "read") => (pc[t] = "check" /\ alive)
        /\ nread'[t] # nread[t] => (pc[t] = "read" /\ nread'[t] = nread[t] + 1)
        /\ (pc[t] = "check" /\ ~alive /\ pc'[t] # "check") => pc'[t] = "exit"
        /\ Exited(t) => (Exited(t)' /\ nread'[t] = nread[t])

\* C18: every relay loop checks the client's alive flag once per iteration,
\* at its start and before reading; after the flag is cleared each relay
\* loop completes at most the read under way, forwards at most one more
\* packet and exits at its next check without reading again.
C18_ExitAtNextCheck == [](C18_AtMostOneMore) /\ [][C18_CheckStep]_vars

\* C18 witness: the kick cleared the flag while the backend reader was
\* reading; the reader got its packet, forwarded it to the client after the
\* PlayDisconnect and is at its loop head; the client reader has exited.
C18_Witness ==
    /\ ~alive
    /\ late[ServerRelay(0)] = 1
    /\ pc[ServerRelay(0)] = "check"
    /\ client_out = <<Entry(Kicker, 0), Entry(ServerRelay(0), 1)>>
    /\ Exited(ClientRelay)

\* the last entry of wire list x that carries tag name n
LastWith(x, n) ==
    x[CHOOSE i \in DOMAIN x : x[i].name = n /\ \A j \in DOMAIN x : x[j].name = n => j <= i]

\* C19 as stated: for a wire tag list x whose ids are all in the dictionary,
\* tags_to_proto_tags(proto_tags_to_tags(x)) is x: the same entries in the
\* same order, each with the same ids in the same order.
C19_RoundTripIdentity == tag_pc = "back" => tag_out = tag_wire

\* C19 as amended: for a wire tag list x whose ids are all in the
\* dictionary, tags_to_proto_tags(proto_tags_to_tags(x)) holds one entry for
\* each tag name of x, in some order, and each is the last entry of x with
\* that name: the same ids in the same order.
C19_RoundTripUpToOrder ==
    tag_pc = "back" =>
        /\ AllKnown(tag_wire, Dictionary)
        /\ \A i, j \in DOMAIN tag_out : tag_out[i].name = tag_out[j].name => i = j
        /\ {tag_out[i].name : i \in DOMAIN tag_out} = {tag_wire[i].name : i \in DOMAIN tag_wire}
        /\ \A i \in DOMAIN tag_out : tag_out[i] = LastWith(tag_wire, tag_out[i].name)

\* C19 witness: a list of two entries with two ids in one of them came back
\* with the entries swapped and the ids of each in their order.
C19_Witness ==
    /\ tag_pc = "back"
    /\ tag_wire = <<WireTag("a", <<2, 1>>), WireTag("b", <<1>>)>>
    /\ tag_out = <<WireTag("b", <<1>>), WireTag("a", <<2, 1>>)>>

\* C20: a tag translation that meets an id absent from the dictionary fails
\* with an error value: the packet is dropped, the relay task goes on and is
\* not aborted.
C20_UnknownIdDropped ==
    (tag_pc # "idle" /\ ~AllKnown(tag_wire, Dictionary)) => tag_pc = "dropped"

\* the zone list with its entries in the opposite order
Reversed(zones) == [i \in DOMAIN zones |-> zones[Len(zones) + 1 - i]]

Abs(n) == IF n < 0 THEN 0 - n ELSE n

\* C21: the zones of SplinterProxy::new partition the X/Z plane, every position
\* is in exactly one zone, so the backend of a position does not depend on
\* the order of the list: backend 0 iff |x| <= 4 and |z| <= 4, else backend 1
C21_ZonesPartition ==
    zone_pc = "asked" =>
        LET x == zone_pos[1]
            z == zone_pos[2]
        IN /\ Cardinality(Matching(Zones, x, z)) = 1
           /\ zone_backend = zone_of(Reversed(Zones), x, z)
           /\ zone_backend = (IF Abs(x) <= 4 /\ Abs(z) <= 4 THEN 0 ELSE 1)

\* the locks: the proxy registries (players, player_data), the mapping, the
\* client's writer and connection map, each backend connection
RegistryLock == <<"registry", 0>>
MappingLock == <<"mapping", 0>>
WriterLock == <<"writer", 0>>
ServersLock == <<"servers", 0>>
ConnLock(id) == <<"conn", id>>
Locks == {RegistryLock, MappingLock, WriterLock, ServersLock}
             \cup {ConnLock(id) : id \in Backends}

\* proxy-registries -> mapping -> per-client -> per-backend-connection
LockRank(l) ==
    CASE l = RegistryLock -> 0
      [] l = MappingLock -> 1
      [] l \in {WriterLock, ServersLock} -> 2
      [] OTHER -> 3

\* who holds a lock between two steps (a registry lock is taken and given
\* back within one step)
Holder(l) ==
    CASE l = RegistryLock -> Free
      [] l = MappingLock -> mapping_lock
      [] l = WriterLock -> writer_lock
      [] l = ServersLock -> servers_lock
      [] OTHER -> conn_lock[l[2]]

HeldBy(t) == {l \in Locks : Holder(l) = t}

\* the lock the next step of a task asks for; shutdown runs its kick_client
\* calls itself, so it is the kicking task
Wants(t) ==
    IF t = Kicker
    THEN CASE pc[t] = "send_kick" -> {WriterLock}
           [] pc[t] \in {"remove", "persist"} -> {RegistryLock}
           [] pc[t] \in {"idle", "done"} /\ sdPc \in {"idle", "kick"} -> {RegistryLock}
           [] OTHER -> {}
    ELSE CASE pc[t] = "lock_map" -> {MappingLock}
           [] pc[t] = "send" /\ dest[t] = DestClient -> {WriterLock}
           [] pc[t] = "send" /\ dest[t][1] = "Server" -> {ServersLock}
           [] pc[t] = "lock_conn" -> {ConnLock(dest[t][2])}
           [] pc[t] = "check" /\ IsServerRelay(t) /\ alive -> {ConnLock(BackendOf(t))}
           [] pc[t] = "exit" /\ IsServerRelay(t) -> {ConnLock(BackendOf(t))}
           [] pc[t] = "exit" /\ ~IsServerRelay(t) -> {RegistryLock}
           [] OTHER -> {}

\* the tasks whose locks task t is waiting for
WaitsOn(t) == {Holder(l) : l \in Wants(t)} \ {Free}

RECURSIVE WaitChain(_, _)
WaitChain(S, n) ==
    IF n = 0 THEN S
    ELSE WaitChain(S \cup UNION {WaitsOn(u) : u \in S}, n - 1)

\* t waits, directly or through other waiting tasks, for a lock it holds
\* itself or that is held by a task waiting for t
WaitCycle(t) == t \in WaitChain(WaitsOn(t), Cardinality(Tasks))

\* a task that is finished, at its loop head or suspended in a socket read
Parked(t) == pc[t] \in {"idle", "done", "check", "read", "exit", "exit_alive"}

InPasses == {t \in RelayTasks : pc[t] = "passes"}

\* a task running the pass chain holds the mapping lock, so there is at
\* most one
C23_OneRunner ==
    /\ \A t \in InPasses : mapping_lock = t
    /\ Cardinality(InPasses) <= 1

\* a task enters the chain by taking the free lock and still holds it in
\* the step that ends the chain
C23_ChainStep ==
    \A t \in RelayTasks :
        /\ (pc[t] # "passes" /\ pc'[t] = "passes") =>
               (mapping_lock = Free /\ mapping_lock' = t)
        /\ (pc[t] = "passes" /\ pc'[t] # "passes") => mapping_lock' = t

\* C23: at most one relay task at a time runs the relay-pass chain; each
\* holds the mapping lock from before the first pass until after the last
C23_SinglePassRunner == [](C23_OneRunner) /\ [][C23_ChainStep]_vars

\* one task runs the chain while another has a packet and waits for the lock
C23_Witness ==
    \E t \in RelayTasks, u \in RelayTasks :
        /\ t # u
        /\ pc[t] = "passes"
        /\ mapping_lock = t
        /\ pc[u] = "lock_map"

\* C24: the mapping lock is held for the pass chain only: a relay task that
\* waits for the destination's connection or is writing to the destination
\* writer has released it, so no task with a packet is kept from its pass
\* chain by another task's write
C24_ReleasedBeforeWrite ==
    \A t \in RelayTasks :
        pc[t] \in {"lock_conn", "write"} =>
            /\ mapping_lock # t
            /\ \A u \in RelayTasks : pc[u] = "lock_map" => mapping_lock # t

\* C25: shutdown() clears the proxy alive flag before it kicks: once a
\* Shutdown kick has been issued the flag is false
C25_AliveClearedFirst == kick_reason = "Shutdown" => ~proxy_alive

\* handle_client_relay has returned: the flag is false, the client is not in
\* the registry
C26_Returned ==
    pc[ClientRelay] = "done" => (~alive /\ ClientUuid \notin players)

\* the flag does not go back to true
C26_StaysCleared == ~alive => ~alive'

\* C26: whenever the client->server relay loop exits, on return the client's
\* alive flag is false and the client is not in the registry; a cleared flag
\* is never set again
C26_ClientRelayExit == [](C26_Returned) /\ [][C26_StaysCleared]_vars

\* the peer closed the connection, nobody kicked: the task has returned
\* while a backend reader is still in its loop
C26_Witness ==
    /\ pc[ClientRelay] = "done"
    /\ kicks = 0
    /\ ~alive
    /\ players = {}
    /\ \E id \in Backends : pc[ServerRelay(id)] \in {"read", "write"}

\* the step in which the reader of backend id returns
ServerRelayReturns(id) ==
    pc[ServerRelay(id)] = "exit" /\ pc'[ServerRelay(id)] = "done"

\* the step in which the reader of backend id leaves its loop
ServerRelayBreaks(id) ==
    pc[ServerRelay(id)] \in {"check", "read"} /\ pc'[ServerRelay(id)] = "exit"

C27_ExitStep ==
    \A id \in Backends :
        /\ ServerRelayReturns(id) =>
               /\ ~conn_alive'[id]
               /\ \A o \in Backends \ {id} : conn_alive'[o] = conn_alive[o]
               /\ UNCHANGED <<alive, players, player_data, active_server_id, servers>>
               /\ UNCHANGED <<outVars, lockVars>>
        /\ ServerRelayBreaks(id) => UNCHANGED <<clientVars, outVars, lockVars>>

\* C27: a server->client relay loop that exits sets its own backend
\* connection's alive flag to false and nothing else: the client's flag, its
\* registry entry, its active backend id and its other connections stay
C27_ServerRelayExitFrame == [][C27_ExitStep]_vars

\* the reader of the active backend has returned, the client is still
\* registered and alive and its own reader goes on
C27_Witness ==
    /\ pc[ServerRelay(active_server_id)] = "done"
    /\ ~conn_alive[active_server_id]
    /\ alive
    /\ ClientUuid \in players
    /\ pc[ClientRelay] = "read"
    /\ kicks = 0

\* a step of the kick command that ends it with an error before any client
\* was found: no argument, no client of that name, or kick_client finding
\* the uuid gone from the registry
KickBails ==
    /\ kicks' # kicks \/ cmd_pc = "found"
    /\ cmd_pc' \in {"no_args", "no_name", "no_uuid"}

C28_BailStep ==
    KickBails =>
        /\ UNCHANGED <<players, player_data, alive, active_server_id, servers, conn_alive>>
        /\ UNCHANGED <<client_out, server_out, disconnects>>
        /\ UNCHANGED lockVars
        /\ pc'[Kicker] \in {"idle", "done"}
        /\ cmd_pc' = "no_uuid" => kick_result' = "err"

\* C28: a kick that names no registered client changes nothing: kick_client
\* with an absent uuid and the kick command without arguments or with a
\* name nobody has return an error, write no packet, clear no alive flag,
\* remove no registry entry and leave the player data alone
C28_UnknownKickNoEffect == [][C28_BailStep]_vars

\* the command found the client by name, the client's reader then removed
\* it from the registry, and kick_client bailed: the flag is still set,
\* nothing was written or recorded
C28_Witness ==
    /\ cmd_pc = "no_uuid"
    /\ kick_result = "err"
    /\ pc[Kicker] = "done"
    /\ pc[ClientRelay] = "exit_alive"
    /\ alive
    /\ client_out = <<>>
    /\ player_data = {}
====
